---- MODULE Spec2Model ----
(***************************************************************************)
(* Job/resume matching: skill extraction, scoring and top-K ranking of     *)
(* ArrayJobMatcher, AdvancedArrayJobMatcher and LinkedListJobMatcher.      *)
(*                                                                         *)
(* Numbers.  A C++ double is modelled as a fixed-point integer counted in  *)
(* units of 1/Scale.  Scale is a multiple of 10 and of every skill-list    *)
(* length that occurs, so the ratios and the 0.x coefficients of the       *)
(* scorers are exact; only sqrt and log are rounded.  Skill weights are    *)
(* counted in units of 1/WUnit.  The result of 0.0/0 is the value NaN.     *)
(***************************************************************************)
EXTENDS Integers, Sequences, FiniteSets, TLC

(* ------------------------------ bounds -------------------------------- *)

\* capacity of the job collection (ArrayJobMatcher's maxJobs, and the cap on
\* the number of job records of the other two matchers)
MaxJobs == 2

\* capacity of the resume collection
MaxResumes == 2

\* cap on the number of records of both collections together
MaxDocs == 3

\* largest topK passed to a ranking call; the smallest is -1
MaxK == 2

\* longest skill list of the scorer inputs of SpecScore
MaxSkillLen == 2

\* the largest number of pieces a free text is put together from
MaxPieces == 3

\* the largest number of jobs given to the sort routines
MaxSortLen == 17

\* the largest depthLimit given to introsortJobs
MaxDepth == 2
MaxSearchLen == 4
MaxListLen == 4
MaxCapacity == 6
MaxValue == 2

\* the pageSize the command line interface is constructed with
PageSize == 1

(* --------------------------- number model ----------------------------- *)

Scale == 25200

WUnit == 10

NaN == -1

\* std::min without the comparison
MinMutant(a, b) == a

Min(a, b) == IF a < b THEN a ELSE b

\* static_cast<double>(a) / b for non-negative integers a <= b
Ratio(a, b) == IF b = 0 THEN NaN ELSE (a * Scale) \div b

RECURSIVE SqrtSearch(_, _, _)
SqrtSearch(n, lo, hi) ==
    IF lo >= hi THEN lo
    ELSE LET mid == (lo + hi + 1) \div 2
         IN  IF mid * mid <= n THEN SqrtSearch(n, mid, hi)
                               ELSE SqrtSearch(n, lo, mid - 1)

\* floor of the square root
Sqrt(n) == SqrtSearch(n, 0, Min(n, 46340))

\* 1000 * ln(n) for n = 1..12
LnTable == <<0, 693, 1099, 1386, 1609, 1792, 1946, 2079, 2197, 2303, 2398, 2485>>

\* std::log(static_cast<double>(n) / d) in units of 1/WUnit, rounded to nearest
Log(n, d) == ((LnTable[n] - LnTable[d]) * WUnit + 500) \div 1000

(* ------------------------------ strings ------------------------------- *)

Upper == "ABCDEFGHIJKLMNOPQRSTUVWXYZ"

Lower == "abcdefghijklmnopqrstuvwxyz"

CharAt(s, i) == SubSeq(s, i, i)

\* ::tolower on one character
ToLowerChar(c) ==
    IF \E i \in 1..26 : CharAt(Upper, i) = c
    THEN CharAt(Lower, CHOOSE i \in 1..26 : CharAt(Upper, i) = c)
    ELSE c

RECURSIVE toLowerCase(_)
toLowerCase(str) ==
    IF Len(str) = 0 THEN str
    ELSE toLowerCase(SubSeq(str, 1, Len(str) - 1)) \o ToLowerChar(CharAt(str, Len(str)))

\* lowerDesc.find(skill) != std::string::npos
Contains(text, skill) ==
    \E i \in 1..(Len(text) - Len(skill) + 1) : SubSeq(text, i, i + Len(skill) - 1) = skill

(* --------------------------- skill catalogs --------------------------- *)

\* the weighted skills of AdvancedArrayJobMatcher::initializeSkillTrie and of
\* ArrayJobMatcher's extractSkillsAdvanced (the two lists are the same),
\* in insertion order; the skill id is the position minus one
Skills == <<
    "python", "java", "javascript", "sql", "c++", "c#", "go", "rust",
    "machine learning", "deep learning", "nlp", "pandas", "numpy", "scikit-learn",
    "tensorflow", "keras", "pytorch",
    "power bi", "tableau", "excel", "matplotlib", "seaborn", "plotly",
    "docker", "kubernetes", "aws", "azure", "gcp", "mlops",
    "git", "jenkins", "ci/cd", "rest apis", "graphql", "microservices",
    "spring boot", "django", "flask", "react", "angular", "vue",
    "agile", "scrum", "system design", "data cleaning", "reporting", "statistics",
    "computer vision", "natural language processing", "stakeholder management",
    "user stories", "product roadmap", "data pipeline" >>

\* the catalog weights, in units of 1/WUnit
SkillCatalogWeights == <<
    10, 10, 9, 9, 8, 8, 7, 7,
    10, 9, 9, 8, 7, 8,
    9, 8, 8,
    8, 8, 7, 6, 6, 6,
    7, 6, 7, 6, 6, 7,
    6, 5, 6, 7, 6, 6,
    7, 6, 6, 6, 6, 5,
    6, 5, 7, 6, 5, 7,
    8, 8, 5,
    5, 5, 6 >>

\* the skill list of LinkedListJobMatcher's JobNode / ResumeNode
commonSkillsList == <<
    "sql", "excel", "power bi", "tableau", "python", "java", "javascript",
    "machine learning", "deep learning", "nlp", "pandas", "tensorflow",
    "keras", "mlops", "docker", "git", "agile", "system design",
    "rest apis", "spring boot", "data cleaning", "reporting", "statistics",
    "computer vision", "stakeholder management", "user stories", "product roadmap" >>

(* ------------------------------ the trie ------------------------------ *)
\* A trie node is identified by the string spelled on the path from the root.

IsPrefix(p, s) == Len(p) <= Len(s) /\ SubSeq(s, 1, Len(p)) = p

\* current->children.find(c) != current->children.end()
HasChild(node, c) == \E k \in 1..Len(Skills) : IsPrefix(node \o c, Skills[k])

\* current->isEndOfSkill
isEndOfSkill(node) == \E k \in 1..Len(Skills) : Skills[k] = node

\* current->skillId
skillId(node) == (CHOOSE k \in 1..Len(Skills) : Skills[k] = node) - 1

\* the inner while loop of SkillTrie::extractSkills, started at position i
\* and now at position j in trie node `node`
RECURSIVE TrieWalk(_, _, _)
TrieWalk(text, j, node) ==
    IF j <= Len(text) /\ HasChild(node, CharAt(text, j))
    THEN LET next == node \o CharAt(text, j)
         IN  (IF isEndOfSkill(next) THEN <<skillId(next)>> ELSE <<>>)
             \o TrieWalk(text, j + 1, next)
    ELSE <<>>

\* a scan that only walks from the position it is given
TrieScanMutant(text, i) == TrieWalk(text, i, "")

\* the outer for loop of SkillTrie::extractSkills, from position i on
RECURSIVE TrieScan(_, _)
TrieScan(text, i) ==
    IF i > Len(text) THEN <<>>
    ELSE TrieWalk(text, i, "") \o TrieScan(text, i + 1)

\* SkillTrie::extractSkills
extractSkills(text) == TrieScan(toLowerCase(text), 1)

\* the positions k of `catalog` whose phrase occurs in the lowercased text,
\* in catalog order
RECURSIVE FindEach(_, _, _)
FindEach(lowerDesc, catalog, k) ==
    IF k > Len(catalog) THEN <<>>
    ELSE (IF Contains(lowerDesc, catalog[k]) THEN <<k>> ELSE <<>>)
         \o FindEach(lowerDesc, catalog, k + 1)

(* ------------------------------ records ------------------------------- *)

\* the free-text lines a CSV file can hold
Texts == <<"Java SQL", "sql sql", "cook">>

TextSet == {Texts[i] : i \in 1..Len(Texts)}

Range(seq) == {seq[i] : i \in 1..Len(seq)}

\* the lines of the files given to ArrayJobMatcher and LinkedListJobMatcher:
\* one more line, with a phrase that only the longer of their two catalogs has
WideTextSet == TextSet \cup {"Java numpy"}

\* trie.extractSkills(description), tabulated for the texts of the model
TrieSkillIds == [t \in TextSet |-> extractSkills(t)]

\* the catalog positions found by Job::extractSkillsAdvanced
AdvancedFound == [t \in WideTextSet |-> FindEach(toLowerCase(t), Skills, 1)]

\* the catalog positions found by JobNode::extractSkills
NodeFound == [t \in WideTextSet |-> FindEach(toLowerCase(t), commonSkillsList, 1)]

\* the three extractions for any text
TrieIds(desc) ==
    IF desc \in DOMAIN TrieSkillIds THEN TrieSkillIds[desc] ELSE extractSkills(desc)

AdvancedFoundIn(desc) ==
    IF desc \in DOMAIN AdvancedFound THEN AdvancedFound[desc]
    ELSE FindEach(toLowerCase(desc), Skills, 1)

NodeFoundIn(desc) ==
    IF desc \in DOMAIN NodeFound THEN NodeFound[desc]
    ELSE FindEach(toLowerCase(desc), commonSkillsList, 1)

\* AdvancedArrayJobMatcher::Job(jobId, desc, trie); Resume is the same
AdvJob(jobId, desc) ==
    LET ids == TrieIds(desc)
    IN  [id |-> jobId, description |-> desc,
         skillIds |-> ids,
         skillWeights |-> [i \in 1..Len(ids) |-> WUnit],
         matchScore |-> 0]

\* a Job constructed with a matchScore of 1
ArrJobMutant(jobId, desc) ==
    [id |-> jobId, matchScore |-> Scale, description |-> desc,
     skills |-> <<>>, skillWeights |-> <<>>]

\* ArrayJobMatcher::Job(jobId, desc); Resume is the same
ArrJob(jobId, desc) ==
    LET found == AdvancedFoundIn(desc)
    IN  [id |-> jobId, matchScore |-> 0, description |-> desc,
         skills |-> [i \in 1..Len(found) |-> Skills[found[i]]],
         skillWeights |-> [i \in 1..Len(found) |-> SkillCatalogWeights[found[i]]]]

\* LinkedListJobMatcher::JobNode(jobId, desc); ResumeNode is the same.
\* next = 0 is nullptr, any other value is the address of a node.
JobNode(jobId, desc) ==
    LET found == NodeFoundIn(desc)
    IN  [id |-> jobId, description |-> desc,
         skills |-> [i \in 1..Len(found) |-> commonSkillsList[found[i]]],
         matchScore |-> 0, next |-> 0]

(* ------------------------------ scorers ------------------------------- *)

RECURSIVE SumOver(_, _)
SumOver(S, f) ==
    IF S = {} THEN 0
    ELSE LET x == CHOOSE y \in S : TRUE IN f[x] + SumOver(S \ {x}, f)

\* the unordered_map built by `m[ids[i]] = weights[i]` for i = 0, 1, ...
SkillMap(ids, weights) ==
    [s \in Range(ids) |->
        weights[CHOOSE i \in 1..Len(ids) :
                    ids[i] = s /\ \A j \in (i + 1)..Len(ids) : ids[j] # s]]

\* AdvancedArrayJobMatcher::calculateCosineSimilarity
calculateCosineSimilarity(job, resume) ==
    LET jobSkills == SkillMap(job.skillIds, job.skillWeights)
        resumeSkills == SkillMap(resume.skillIds, resume.skillWeights)
        dotProduct == SumOver(DOMAIN jobSkills,
                        [s \in DOMAIN jobSkills |->
                            jobSkills[s] * (IF s \in DOMAIN resumeSkills
                                            THEN resumeSkills[s] ELSE 0)])
        jobNorm == SumOver(DOMAIN jobSkills,
                        [s \in DOMAIN jobSkills |-> jobSkills[s] * jobSkills[s]])
        resumeNorm == SumOver(DOMAIN resumeSkills,
                        [s \in DOMAIN resumeSkills |-> resumeSkills[s] * resumeSkills[s]])
    IN  IF jobNorm = 0 \/ resumeNorm = 0 THEN 0
        ELSE (dotProduct * Scale) \div Sqrt(jobNorm * resumeNorm)

\* the skill ids of either record instead of those of both
CommonSkillIdsMutant(job, resume) == Range(job.skillIds) \cup Range(resume.skillIds)

\* the skill ids in both unordered_sets (the order of the vector built from
\* them is the iteration order of the set, which nothing here depends on)
CommonSkillIds(job, resume) == Range(job.skillIds) \cap Range(resume.skillIds)

\* AdvancedArrayJobMatcher::calculateAdvancedMatchScore
calculateAdvancedMatchScore(job, resume) ==
    IF Len(job.skillIds) = 0 \/ Len(resume.skillIds) = 0 THEN 0
    ELSE LET commonSkills == CommonSkillIds(job, resume)
         IN  IF commonSkills = {} THEN 0
             ELSE LET skillMatchRatio == Ratio(Cardinality(commonSkills), Len(job.skillIds))
                      coverageRatio == Ratio(Cardinality(commonSkills), Len(resume.skillIds))
                      cosineSimilarity == calculateCosineSimilarity(job, resume)
                      baseScore == (skillMatchRatio * 4) \div 10 + (coverageRatio * 3) \div 10
                                   + (cosineSimilarity * 3) \div 10
                      weightedMatchBonus == Cardinality(commonSkills) * (Scale \div 10)
                      finalScore == baseScore + weightedMatchBonus
                  IN  Min(finalScore, Scale)

\* ArrayJobMatcher::findCommonSkills, having looked at the job skills before
\* position i and collected `acc`
RECURSIVE CommonFrom(_, _, _, _)
CommonFrom(jobSkills, resumeSkills, i, acc) ==
    IF i > Len(jobSkills) THEN acc
    ELSE CommonFrom(jobSkills, resumeSkills, i + 1,
            IF jobSkills[i] \in Range(resumeSkills) /\ jobSkills[i] \notin Range(acc)
            THEN Append(acc, jobSkills[i]) ELSE acc)

\* a comparison of the two lists position by position, stopping at the
\* first skill that both have at the same index
findCommonSkillsMutant(job, resume) ==
    LET same == {i \in 1..Min(Len(job.skills), Len(resume.skills)) :
                    job.skills[i] = resume.skills[i]}
    IN  IF same = {} THEN <<>> ELSE <<job.skills[CHOOSE i \in same : TRUE]>>

\* ArrayJobMatcher::findCommonSkills
findCommonSkills(job, resume) == CommonFrom(job.skills, resume.skills, 1, <<>>)

\* a loop that counts only the common skills found at the same index of the
\* two lists
ExactMatchesMutant(job, resume, commonSkills) ==
    Cardinality({i \in 1..Len(commonSkills) :
                    \E n \in 1..Min(Len(job.skills), Len(resume.skills)) :
                       job.skills[n] = commonSkills[i]
                       /\ resume.skills[n] = commonSkills[i]})

\* the `exactMatches` loop of the two simple scorers
ExactMatches(job, resume, commonSkills) ==
    Cardinality({i \in 1..Len(commonSkills) :
                    commonSkills[i] \in Range(job.skills)
                    /\ commonSkills[i] \in Range(resume.skills)})

\* ArrayJobMatcher::calculateAdvancedMatchScore
ArrCalculateAdvancedMatchScore(job, resume) ==
    IF Len(job.skills) = 0 \/ Len(resume.skills) = 0 THEN 0
    ELSE LET commonSkills == findCommonSkills(job, resume)
             skillMatchRatio == Ratio(Len(commonSkills), Len(job.skills))
             coverageRatio == Ratio(Len(commonSkills), Len(resume.skills))
             score == (skillMatchRatio * 7) \div 10 + (coverageRatio * 3) \div 10
             exactMatches == ExactMatches(job, resume, commonSkills)
             bonus == IF exactMatches > 0
                      THEN (Ratio(exactMatches, Len(job.skills)) * 2) \div 10 ELSE 0
         IN  Min(score + bonus, Scale)

\* LinkedListJobMatcher::findCommonSkills
LLFindCommonSkills(job, resume) == CommonFrom(job.skills, resume.skills, 1, <<>>)

\* LinkedListJobMatcher::calculateMatchScore
calculateMatchScore(job, resume) ==
    IF Len(job.skills) = 0 \/ Len(resume.skills) = 0 THEN 0
    ELSE LET commonSkills == LLFindCommonSkills(job, resume)
             skillMatchRatio == Ratio(Len(commonSkills), Len(job.skills))
             coverageRatio == Ratio(Len(commonSkills), Len(resume.skills))
             score == (skillMatchRatio * 7) \div 10 + (coverageRatio * 3) \div 10
             exactMatches == ExactMatches(job, resume, commonSkills)
             bonus == IF exactMatches > 0
                      THEN (Ratio(exactMatches, Len(job.skills)) * 2) \div 10 ELSE 0
         IN  Min(score + bonus, Scale)

(* ---------------------------- std algorithms -------------------------- *)

Perms(n) == {p \in [1..n -> 1..n] : \A i, j \in 1..n : i # j => p[i] # p[j]}

Arrange(seq, p) == [i \in 1..Len(seq) |-> seq[p[i]]]

\* std::sort(first, last, comp): an arrangement in which no element comes
\* after one it is less than; equal elements come in an unspecified order.
\* less[i][j] is comp(seq[i], seq[j]).
StdSort(seq, less) ==
    {Arrange(seq, p) : p \in
        {q \in Perms(Len(seq)) :
            \A i, j \in 1..Len(seq) : i < j => ~less[q[j]][q[i]]}}

\* std::partial_sort(first, first + k, last): the k first elements of the
\* order come first, in order; the others follow in an unspecified order
StdPartialSort(seq, k, less) ==
    {Arrange(seq, p) : p \in
        {q \in Perms(Len(seq)) :
            /\ \A i, j \in 1..k : i < j => ~less[q[j]][q[i]]
            /\ \A i \in 1..k : \A j \in (k + 1)..Len(seq) : ~less[q[j]][q[i]]}}

\* every sequence of at most n lines
Files(n) == UNION {[1..m -> TextSet] : m \in 0..n}

WideFiles(n) == UNION {[1..m -> WideTextSet] : m \in 0..n}

\* m[k] = v on an unordered_map
MapPut(m, k, v) == [x \in (DOMAIN m) \cup {k} |-> IF x = k THEN v ELSE m[x]]

(* ------------------------------- state -------------------------------- *)

VARIABLES
    matcher,          \* which class the object is: "array", "advanced", "linked"
    jobs,             \* the job records (array slots / vector / list nodes by address)
    resumes,          \* the resume records
    jobCount,         \* jobCount, or jobs.size()
    resumeCount,      \* resumeCount, or resumes.size()
    jobHead,          \* LinkedListJobMatcher::jobHead (0 is nullptr)
    resumeHead,       \* LinkedListJobMatcher::resumeHead
    jobIdToIndex,     \* AdvancedArrayJobMatcher::jobIdToIndex (0-based indices)
    resumeIdToIndex,  \* AdvancedArrayJobMatcher::resumeIdToIndex
    call,             \* the last call: its name, arguments and how it ended
    result            \* what the last call returned

vars == <<matcher, jobs, resumes, jobCount, resumeCount, jobHead, resumeHead,
          jobIdToIndex, resumeIdToIndex, call, result>>

corpus == <<jobs, resumes, jobCount, resumeCount, jobHead, resumeHead>>

Call(op, id, k, status) == [op |-> op, id |-> id, k |-> k, status |-> status]

\* no ranking or search request has been made since the last change
NoCall == Call("none", 0, 0, "ok")

Ids == 1..MaxJobs

TopKs == (-1)..MaxK

\* the descriptions of the records handed to addJob / addResume
AddTexts == {Texts[2]}

(* ----------------------- AdvancedArrayJobMatcher ---------------------- *)

\* a count of the occurrences of s, not of the documents that list it
skillDocumentCountMutant(js, rs, s) ==
    SumOver(1..Len(js), [i \in 1..Len(js) |->
                Cardinality({j \in 1..Len(js[i].skillIds) : js[i].skillIds[j] = s})])
    + SumOver(1..Len(rs), [i \in 1..Len(rs) |->
                Cardinality({j \in 1..Len(rs[i].skillIds) : rs[i].skillIds[j] = s})])

\* skillDocumentCount[s] of calculateTFIDF
skillDocumentCount(js, rs, s) ==
    Cardinality({i \in 1..Len(js) : s \in Range(js[i].skillIds)})
    + Cardinality({i \in 1..Len(rs) : s \in Range(rs[i].skillIds)})

\* weights that are scaled by the weight already stored
IdfWeightsMutant(js, rs, doc) ==
    [j \in 1..Len(doc.skillIds) |->
        (doc.skillWeights[j]
           * Log(Len(js) + Len(rs), skillDocumentCount(js, rs, doc.skillIds[j])))
        \div WUnit]

\* the weights calculateTFIDF stores in one record
IdfWeights(js, rs, doc) ==
    [j \in 1..Len(doc.skillIds) |->
        Log(Len(js) + Len(rs), skillDocumentCount(js, rs, doc.skillIds[j]))]

\* AdvancedArrayJobMatcher::calculateTFIDF, as the new value of a collection
calculateTFIDF(js, rs, docs) ==
    [i \in 1..Len(docs) |-> [docs[i] EXCEPT !.skillWeights = IdfWeights(js, rs, docs[i])]]

\* the loop of loadJobsFromCSV: the records appended and the map entries set
RECURSIVE AdvLoadLoop(_, _, _, _)
AdvLoadLoop(docs, index, file, n) ==
    IF n > Len(file) THEN <<docs, index>>
    ELSE AdvLoadLoop(Append(docs, AdvJob(n, file[n])),
                     MapPut(index, n, Len(docs)), file, n + 1)

\* AdvancedArrayJobMatcher::loadJobsFromCSV
AdvLoadJobsFromCSV(file) ==
    /\ matcher = "advanced"
    /\ Len(jobs) + Len(file) <= MaxJobs
    /\ Len(jobs) + Len(file) + Len(resumes) <= MaxDocs
    /\ LET loaded == AdvLoadLoop(jobs, jobIdToIndex, file, 1)
       IN  /\ jobs' = calculateTFIDF(loaded[1], resumes, loaded[1])
           /\ resumes' = calculateTFIDF(loaded[1], resumes, resumes)
           /\ jobIdToIndex' = loaded[2]
           /\ jobCount' = Len(loaded[1])
    /\ call' = NoCall
    /\ result' = <<>>
    /\ UNCHANGED <<matcher, resumeCount, jobHead, resumeHead, resumeIdToIndex>>

\* AdvancedArrayJobMatcher::loadResumesFromCSV
AdvLoadResumesFromCSV(file) ==
    /\ matcher = "advanced"
    /\ Len(resumes) + Len(file) <= MaxResumes
    /\ Len(jobs) + Len(file) + Len(resumes) <= MaxDocs
    /\ LET loaded == AdvLoadLoop(resumes, resumeIdToIndex, file, 1)
       IN  /\ resumes' = calculateTFIDF(jobs, loaded[1], loaded[1])
           /\ jobs' = calculateTFIDF(jobs, loaded[1], jobs)
           /\ resumeIdToIndex' = loaded[2]
           /\ resumeCount' = Len(loaded[1])
    /\ call' = NoCall
    /\ result' = <<>>
    /\ UNCHANGED <<matcher, jobCount, jobHead, resumeHead, jobIdToIndex>>

\* AdvancedArrayJobMatcher::addJob
AdvAddJob(id, desc) ==
    /\ matcher = "advanced"
    /\ Len(jobs) < MaxJobs
    /\ Len(jobs) + Len(resumes) < MaxDocs
    /\ jobs' = Append(jobs, AdvJob(id, desc))
    /\ jobCount' = Len(jobs) + 1
    /\ call' = NoCall
    /\ result' = <<>>
    /\ UNCHANGED <<matcher, resumes, resumeCount, jobHead, resumeHead,
                   jobIdToIndex, resumeIdToIndex>>

\* AdvancedArrayJobMatcher::addResume
AdvAddResume(id, desc) ==
    /\ matcher = "advanced"
    /\ Len(resumes) < MaxResumes
    /\ Len(jobs) + Len(resumes) < MaxDocs
    /\ resumes' = Append(resumes, AdvJob(id, desc))
    /\ resumeCount' = Len(resumes) + 1
    /\ call' = NoCall
    /\ result' = <<>>
    /\ UNCHANGED <<matcher, jobs, jobCount, jobHead, resumeHead,
                   jobIdToIndex, resumeIdToIndex>>

\* AdvancedArrayJobMatcher::searchJob: the position (from 1) of the record
\* returned, 0 for nullptr
searchJob(jobId) ==
    IF jobId \in DOMAIN jobIdToIndex /\ jobIdToIndex[jobId] < Len(jobs)
    THEN jobIdToIndex[jobId] + 1 ELSE 0

\* a lookup that answers with the first resume whatever the id
searchResumeMutant(resumeId) == IF Len(resumes) > 0 THEN 1 ELSE 0

\* AdvancedArrayJobMatcher::searchResume
searchResume(resumeId) ==
    IF resumeId \in DOMAIN resumeIdToIndex /\ resumeIdToIndex[resumeId] < Len(resumes)
    THEN resumeIdToIndex[resumeId] + 1 ELSE 0

\* operator< with the comparison turned round
MatchResultLessMutant(a, b) == a.score < b.score

\* AdvancedArrayJobMatcher::MatchResult::operator<
MatchResultLess(a, b) == a.score > b.score

\* operator< on every pair of elements of a vector of MatchResult
MatchResultOrder(ms) ==
    [i \in 1..Len(ms) |-> [j \in 1..Len(ms) |-> MatchResultLess(ms[i], ms[j])]]

\* the MatchResult the loop of findMatches builds for one job
AdvMatch(job, targetResume, resumeId) ==
    LET common == CommonSkillIds(job, targetResume)
    IN  [jobId |-> job.id, resumeId |-> resumeId,
         score |-> calculateAdvancedMatchScore(job, targetResume),
         cosineSimilarity |-> calculateCosineSimilarity(job, targetResume),
         commonSkillIds |-> common,
         skillMatchRatio |-> Ratio(Cardinality(common), Len(job.skillIds)),
         coverageRatio |-> Ratio(Cardinality(common), Len(targetResume.skillIds))]

\* the vector allMatches of findMatches before it is sorted
AdvAllMatches(target, resumeId) ==
    [i \in 1..Len(jobs) |-> AdvMatch(jobs[i], resumes[target], resumeId)]

\* the end of findMatches without the sort: truncate only
AdvTopMatchesMutant(allMatches, topK) ==
    {SubSeq(allMatches, 1, Min(topK, Len(allMatches)))}

\* the end of findMatches: partial sort and truncate, or sort
AdvTopMatches(allMatches, topK) ==
    IF topK < Len(allMatches)
    THEN {SubSeq(r, 1, topK) : r \in StdPartialSort(allMatches, topK, MatchResultOrder(allMatches))}
    ELSE StdSort(allMatches, MatchResultOrder(allMatches))

\* AdvancedArrayJobMatcher::findMatches.  With topK < 0 the call
\* std::partial_sort(begin, begin + topK, end) has undefined behaviour: the
\* call may return any arrangement of any part of allMatches, or not return.
AdvFindMatches(resumeId, topK) ==
    /\ matcher = "advanced"
    /\ LET target == searchResume(resumeId)
       IN  IF target = 0
           THEN /\ call' = Call("findMatches", resumeId, topK, "notfound")
                /\ result' = <<>>
           ELSE IF topK < 0
           THEN \/ /\ call' = Call("findMatches", resumeId, topK, "ub")
                   /\ \E n \in 0..Len(jobs) :
                        \E p \in Perms(Len(jobs)) :
                            result' = SubSeq(Arrange(AdvAllMatches(target, resumeId), p), 1, n)
                \/ /\ call' = Call("findMatches", resumeId, topK, "crash")
                   /\ result' = <<>>
           ELSE /\ call' = Call("findMatches", resumeId, topK, "ok")
                /\ result' \in AdvTopMatches(AdvAllMatches(target, resumeId), topK)
    /\ UNCHANGED <<matcher, corpus, jobIdToIndex, resumeIdToIndex>>

\* AdvancedArrayJobMatcher::findMatchesForJob
AdvFindMatchesForJob(jobId, topK) ==
    /\ matcher = "advanced"
    /\ call' = Call("findMatchesForJob", jobId, topK,
                    IF searchJob(jobId) = 0 THEN "notfound" ELSE "ok")
    /\ result' = <<>>
    /\ UNCHANGED <<matcher, corpus, jobIdToIndex, resumeIdToIndex>>

\* the comparison of sortJobsBySkillCount / sortResumesBySkillCount
MoreSkills(a, b) == Len(a.skillIds) > Len(b.skillIds)

\* the comparison on every pair of records of a collection
SkillCountOrder(docs) ==
    [i \in 1..Len(docs) |-> [j \in 1..Len(docs) |-> MoreSkills(docs[i], docs[j])]]

\* AdvancedArrayJobMatcher::sortJobsBySkillCount
AdvSortJobsBySkillCount ==
    /\ matcher = "advanced"
    /\ jobs' \in StdSort(jobs, SkillCountOrder(jobs))
    /\ call' = NoCall
    /\ result' = <<>>
    /\ UNCHANGED <<matcher, resumes, jobCount, resumeCount, jobHead, resumeHead,
                   jobIdToIndex, resumeIdToIndex>>

\* AdvancedArrayJobMatcher::sortResumesBySkillCount
AdvSortResumesBySkillCount ==
    /\ matcher = "advanced"
    /\ resumes' \in StdSort(resumes, SkillCountOrder(resumes))
    /\ call' = NoCall
    /\ result' = <<>>
    /\ UNCHANGED <<matcher, jobs, jobCount, resumeCount, jobHead, resumeHead,
                   jobIdToIndex, resumeIdToIndex>>

\* AdvancedArrayJobMatcher::buildIndices
AdvBuildIndices ==
    /\ matcher = "advanced"
    /\ jobIdToIndex' =
         [id \in {jobs[i].id : i \in 1..Len(jobs)} |->
            (CHOOSE i \in 1..Len(jobs) :
                jobs[i].id = id /\ \A j \in (i + 1)..Len(jobs) : jobs[j].id # id) - 1]
    /\ resumeIdToIndex' =
         [id \in {resumes[i].id : i \in 1..Len(resumes)} |->
            (CHOOSE i \in 1..Len(resumes) :
                resumes[i].id = id /\ \A j \in (i + 1)..Len(resumes) : resumes[j].id # id) - 1]
    /\ call' = NoCall
    /\ result' = <<>>
    /\ UNCHANGED <<matcher, corpus>>

AdvNext ==
    \/ \E file \in Files(MaxJobs) : AdvLoadJobsFromCSV(file)
    \/ \E file \in Files(MaxResumes) : AdvLoadResumesFromCSV(file)
    \/ \E id \in Ids, desc \in AddTexts : AdvAddJob(id, desc)
    \/ \E id \in Ids, desc \in AddTexts : AdvAddResume(id, desc)
    \/ \E id \in Ids, topK \in TopKs : AdvFindMatches(id, topK)
    \/ \E id \in Ids, topK \in TopKs : AdvFindMatchesForJob(id, topK)
    \/ AdvSortJobsBySkillCount
    \/ AdvSortResumesBySkillCount
    \/ AdvBuildIndices

(* --------------------------- ArrayJobMatcher -------------------------- *)
\* jobs and resumes hold the slots 0 .. jobCount - 1 and 0 .. resumeCount - 1
\* of the two arrays; the slots after them are never read.

\* a load that stores every line of the file, whatever the capacity
ArrLoadLoopMutant(docs, file, n, capacity) ==
    docs \o [i \in 1..Len(file) |-> ArrJob(i, file[i])]

\* the loop of ArrayJobMatcher::loadJobsFromCSV: it stops at the end of the
\* file or when the array is full
RECURSIVE ArrLoadLoop(_, _, _, _)
ArrLoadLoop(docs, file, n, capacity) ==
    IF n > Len(file) \/ Len(docs) >= capacity THEN docs
    ELSE ArrLoadLoop(Append(docs, ArrJob(n, file[n])), file, n + 1, capacity)

\* ArrayJobMatcher::loadJobsFromCSV
ArrLoadJobsFromCSV(file) ==
    /\ matcher = "array"
    /\ Len(ArrLoadLoop(jobs, file, 1, MaxJobs)) + Len(resumes) <= MaxDocs
    /\ jobs' = ArrLoadLoop(jobs, file, 1, MaxJobs)
    /\ jobCount' = Len(jobs')
    /\ call' = NoCall
    /\ result' = <<>>
    /\ UNCHANGED <<matcher, resumes, resumeCount, jobHead, resumeHead,
                   jobIdToIndex, resumeIdToIndex>>

\* ArrayJobMatcher::loadResumesFromCSV
ArrLoadResumesFromCSV(file) ==
    /\ matcher = "array"
    /\ Len(jobs) + Len(ArrLoadLoop(resumes, file, 1, MaxResumes)) <= MaxDocs
    /\ resumes' = ArrLoadLoop(resumes, file, 1, MaxResumes)
    /\ resumeCount' = Len(resumes')
    /\ call' = NoCall
    /\ result' = <<>>
    /\ UNCHANGED <<matcher, jobs, jobCount, jobHead, resumeHead,
                   jobIdToIndex, resumeIdToIndex>>

\* ArrayJobMatcher::addJob: a full array is left as it is
ArrAddJob(id, desc) ==
    /\ matcher = "array"
    /\ Len(jobs) + Len(resumes) < MaxDocs \/ jobCount >= MaxJobs
    /\ jobs' = IF jobCount < MaxJobs THEN Append(jobs, ArrJob(id, desc)) ELSE jobs
    /\ jobCount' = Len(jobs')
    /\ call' = NoCall
    /\ result' = <<>>
    /\ UNCHANGED <<matcher, resumes, resumeCount, jobHead, resumeHead,
                   jobIdToIndex, resumeIdToIndex>>

\* ArrayJobMatcher::addResume
ArrAddResume(id, desc) ==
    /\ matcher = "array"
    /\ Len(jobs) + Len(resumes) < MaxDocs \/ resumeCount >= MaxResumes
    /\ resumes' = IF resumeCount < MaxResumes
                  THEN Append(resumes, ArrJob(id, desc)) ELSE resumes
    /\ resumeCount' = Len(resumes')
    /\ call' = NoCall
    /\ result' = <<>>
    /\ UNCHANGED <<matcher, jobs, jobCount, jobHead, resumeHead,
                   jobIdToIndex, resumeIdToIndex>>

\* the loop `for i: if (docs[i].id == id) { target = &docs[i]; break; }`:
\* the position (from 1) of the record found, 0 for nullptr
FirstWithId(docs, id) ==
    IF \E i \in 1..Len(docs) : docs[i].id = id
    THEN CHOOSE i \in 1..Len(docs) :
            docs[i].id = id /\ \A j \in 1..(i - 1) : docs[j].id # id
    ELSE 0

\* ArrayJobMatcher::validateInputParameters
validateInputParameters(jobId, resumeId) ==
    /\ jobId > 0
    /\ resumeId > 0
    /\ jobId <= jobCount
    /\ resumeId <= resumeCount

\* the number of rounds of the loop
\* `for (size_t i = 0; i < static_cast<size_t>(topK) && i < size; ++i)`
\* after `if (topK > size) topK = size`: a negative topK becomes a size_t
\* above every size
TopCount(topK, size) ==
    IF topK < 0 THEN size ELSE Min(topK, size)

\* the comparison given to std::sort by ArrayJobMatcher's ranking calls
OverallScoreGreater(a, b) == a.overallScore > b.overallScore

\* the comparison on every pair of elements of allMatches
OverallScoreOrder(ms) ==
    [i \in 1..Len(ms) |-> [j \in 1..Len(ms) |-> OverallScoreGreater(ms[i], ms[j])]]

\* the MatchResult ArrayJobMatcher builds for one pair
ArrMatch(job, resume) ==
    [jobId |-> job.id, resumeId |-> resume.id,
     overallScore |-> ArrCalculateAdvancedMatchScore(job, resume),
     commonSkills |-> findCommonSkills(job, resume)]

\* allMatches of ArrayJobMatcher::findMatches: the jobs without skills are
\* skipped
RECURSIVE ArrAllMatches(_, _, _)
ArrAllMatches(i, targetResume, resumeId) ==
    IF i > jobCount THEN <<>>
    ELSE (IF Len(jobs[i].skills) = 0 THEN <<>>
          ELSE <<[ArrMatch(jobs[i], targetResume) EXCEPT !.resumeId = resumeId]>>)
         \o ArrAllMatches(i + 1, targetResume, resumeId)

\* a findMatches that ranks by reordering the job array itself
ArrFindMatchesMutant(resumeId, topK) ==
    /\ matcher = "array"
    /\ call' = Call("findMatches", resumeId, topK, "ok")
    /\ result' = <<>>
    /\ jobs' = [i \in 1..Len(jobs) |-> jobs[Len(jobs) + 1 - i]]
    /\ UNCHANGED <<matcher, resumes, jobCount, resumeCount, jobHead, resumeHead,
                   jobIdToIndex, resumeIdToIndex>>

\* ArrayJobMatcher::findMatches
ArrFindMatches(resumeId, topK) ==
    /\ matcher = "array"
    /\ LET target == FirstWithId(resumes, resumeId)
       IN  IF ~validateInputParameters(1, resumeId)
           THEN /\ call' = Call("findMatches", resumeId, topK, "invalid")
                /\ result' = <<>>
           ELSE IF topK <= 0
           THEN /\ call' = Call("findMatches", resumeId, topK, "rejected")
                /\ result' = <<>>
           ELSE IF target = 0
           THEN /\ call' = Call("findMatches", resumeId, topK, "notfound")
                /\ result' = <<>>
           ELSE /\ call' = Call("findMatches", resumeId, topK, "ok")
                /\ LET allMatches == ArrAllMatches(1, resumes[target], resumeId)
                   IN  \E sorted \in StdSort(allMatches, OverallScoreOrder(allMatches)) :
                          result' = SubSeq(sorted, 1, TopCount(topK, Len(sorted)))
    /\ UNCHANGED <<matcher, corpus, jobIdToIndex, resumeIdToIndex>>

\* ArrayJobMatcher::findMatchesForJob
ArrFindMatchesForJob(jobId, topK) ==
    /\ matcher = "array"
    /\ LET target == FirstWithId(jobs, jobId)
       IN  IF target = 0
           THEN /\ call' = Call("findMatchesForJob", jobId, topK, "notfound")
                /\ result' = <<>>
           ELSE /\ call' = Call("findMatchesForJob", jobId, topK, "ok")
                /\ LET allMatches ==
                          [i \in 1..resumeCount |->
                              [ArrMatch(jobs[target], resumes[i]) EXCEPT !.jobId = jobId]]
                   IN  \E sorted \in StdSort(allMatches, OverallScoreOrder(allMatches)) :
                          result' = SubSeq(sorted, 1, TopCount(topK, Len(sorted)))
    /\ UNCHANGED <<matcher, corpus, jobIdToIndex, resumeIdToIndex>>

\* the comparator `a.id < b.id` over the positions of docs
IdOrder(docs) ==
    [i \in 1..Len(docs) |-> [j \in 1..Len(docs) |-> docs[i].id < docs[j].id]]

\* the largest value of the int that the interpolation formula is computed in
IntMax == 2147483647

\* the while loop of interpolationSearchJob over the sorted array, with the
\* code's 0-based left and right: how the loop ends, the position (from 1)
\* of the record returned and the number of probes.  "divzero" is the
\* interpolation formula evaluated with jobs[right].id == jobs[left].id,
\* "overflow" its product exceeding the int range, "outofrange" a probe
\* outside [left, right].
RECURSIVE InterpolationLoop(_, _, _, _)
InterpolationLoop(docs, id, left, right) ==
    IF ~(left <= right /\ id >= docs[left + 1].id /\ id <= docs[right + 1].id)
    THEN [status |-> "notfound", pos |-> 0, probes |-> 0]
    ELSE IF left = right
    THEN IF docs[left + 1].id = id
         THEN [status |-> "found", pos |-> left + 1, probes |-> 0]
         ELSE [status |-> "notfound", pos |-> 0, probes |-> 0]
    ELSE IF id - docs[left + 1].id > IntMax \div (right - left)
    THEN [status |-> "overflow", pos |-> 0, probes |-> 0]
    ELSE IF docs[right + 1].id = docs[left + 1].id
    THEN [status |-> "divzero", pos |-> 0, probes |-> 0]
    ELSE LET pos == left + ((id - docs[left + 1].id) * (right - left))
                             \div (docs[right + 1].id - docs[left + 1].id)
             rest == IF docs[pos + 1].id < id
                     THEN InterpolationLoop(docs, id, pos + 1, right)
                     ELSE InterpolationLoop(docs, id, left, pos - 1)
         IN  IF pos < left \/ pos > right
             THEN [status |-> "outofrange", pos |-> 0, probes |-> 1]
             ELSE IF docs[pos + 1].id = id
             THEN [status |-> "found", pos |-> pos + 1, probes |-> 1]
             ELSE [rest EXCEPT !.probes = @ + 1]

\* what an interpolation search over `sorted` returns: the record found, or
\* nothing; an integer division by zero or a signed overflow has no defined
\* outcome, the call traps or goes on with any position
InterpolationResults(sorted, id) ==
    LET r == InterpolationLoop(sorted, id, 0, Len(sorted) - 1)
    IN  CASE r.status = "found" -> {<<sorted[r.pos]>>}
          [] r.status = "notfound" -> {<<>>}
          [] OTHER -> {<<>>} \cup {<<sorted[i]>> : i \in 1..Len(sorted)}

\* ArrayJobMatcher::interpolationSearchJob
ArrInterpolationSearchJob(jobId) ==
    /\ matcher = "array"
    /\ \E sorted \in StdSort(jobs, IdOrder(jobs)) :
          /\ jobs' = sorted
          /\ call' = Call("interpolationSearchJob", jobId,
                          InterpolationLoop(sorted, jobId, 0, jobCount - 1).probes,
                          InterpolationLoop(sorted, jobId, 0, jobCount - 1).status)
          /\ result' \in InterpolationResults(sorted, jobId)
    /\ UNCHANGED <<matcher, resumes, jobCount, resumeCount, jobHead, resumeHead,
                   jobIdToIndex, resumeIdToIndex>>

\* ArrayJobMatcher::interpolationSearchResume
ArrInterpolationSearchResume(resumeId) ==
    /\ matcher = "array"
    /\ \E sorted \in StdSort(resumes, IdOrder(resumes)) :
          /\ resumes' = sorted
          /\ call' = Call("interpolationSearchResume", resumeId,
                          InterpolationLoop(sorted, resumeId, 0, resumeCount - 1).probes,
                          InterpolationLoop(sorted, resumeId, 0, resumeCount - 1).status)
          /\ result' \in InterpolationResults(sorted, resumeId)
    /\ UNCHANGED <<matcher, jobs, jobCount, resumeCount, jobHead, resumeHead,
                   jobIdToIndex, resumeIdToIndex>>

\* a binary search that gives up after its first probe
BinaryLoopMutant(docs, id, left, right) ==
    IF left <= right /\ docs[left + (right - left) \div 2 + 1].id = id
    THEN left + (right - left) \div 2 + 1
    ELSE 0

\* the while loop of binarySearchJob over the sorted array, with the code's
\* 0-based left and right: the position (from 1) of the record returned, 0
\* for nullptr
RECURSIVE BinaryLoop(_, _, _, _)
BinaryLoop(docs, id, left, right) ==
    IF ~(left <= right) THEN 0
    ELSE LET mid == left + (right - left) \div 2
         IN  IF docs[mid + 1].id = id THEN mid + 1
             ELSE IF docs[mid + 1].id < id
             THEN BinaryLoop(docs, id, mid + 1, right)
             ELSE BinaryLoop(docs, id, left, mid - 1)

\* ArrayJobMatcher::binarySearchJob
ArrBinarySearchJob(jobId) ==
    /\ matcher = "array"
    /\ \E sorted \in StdSort(jobs, IdOrder(jobs)) :
          LET pos == BinaryLoop(sorted, jobId, 0, jobCount - 1)
          IN  /\ jobs' = sorted
              /\ call' = Call("binarySearchJob", jobId, 0,
                              IF pos = 0 THEN "notfound" ELSE "found")
              /\ result' = IF pos = 0 THEN <<>> ELSE <<sorted[pos]>>
    /\ UNCHANGED <<matcher, resumes, jobCount, resumeCount, jobHead, resumeHead,
                   jobIdToIndex, resumeIdToIndex>>

\* ArrayJobMatcher::linearSearchJob
ArrLinearSearchJob(jobId) ==
    /\ matcher = "array"
    /\ LET pos == FirstWithId(jobs, jobId)
       IN  /\ call' = Call("linearSearchJob", jobId, 0,
                           IF pos = 0 THEN "notfound" ELSE "found")
           /\ result' = IF pos = 0 THEN <<>> ELSE <<jobs[pos]>>
    /\ UNCHANGED <<matcher, corpus, jobIdToIndex, resumeIdToIndex>>

\* ArrayJobMatcher::searchJobsByScoreRange
ArrSearchJobsByScoreRange(minScore, maxScore) ==
    /\ matcher = "array"
    /\ call' = Call("searchJobsByScoreRange", minScore, maxScore, "ok")
    /\ result' = SelectSeq(SubSeq(jobs, 1, jobCount),
                           LAMBDA job : job.matchScore >= minScore
                                          /\ job.matchScore <= maxScore)
    /\ UNCHANGED <<matcher, corpus, jobIdToIndex, resumeIdToIndex>>

ArrNext ==
    \/ \E file \in WideFiles(MaxJobs + 1) : ArrLoadJobsFromCSV(file)
    \/ \E file \in WideFiles(MaxResumes + 1) : ArrLoadResumesFromCSV(file)
    \/ \E id \in Ids, desc \in AddTexts : ArrAddJob(id, desc)
    \/ \E id \in Ids, desc \in AddTexts : ArrAddResume(id, desc)
    \/ \E id \in Ids, topK \in TopKs : ArrFindMatches(id, topK)
    \/ \E id \in Ids, topK \in TopKs : ArrFindMatchesForJob(id, topK)
    \/ \E id \in Ids : ArrInterpolationSearchJob(id)
    \/ \E id \in Ids : ArrInterpolationSearchResume(id)
    \/ \E minScore \in {0 - Scale, 0, Scale}, maxScore \in {0 - Scale, 0, Scale} :
          ArrSearchJobsByScoreRange(minScore, maxScore)

(* ------------------------ LinkedListJobMatcher ------------------------ *)
\* jobs and resumes hold the nodes allocated so far, by address (from 1);
\* a node's next and the two heads are addresses, 0 is nullptr.

\* the addresses met by `for (p = head; p != nullptr; p = p->next)`, at most
\* `fuel` of them
RECURSIVE Walk(_, _, _)
Walk(nodes, head, fuel) ==
    IF head = 0 \/ fuel = 0 THEN <<>>
    ELSE <<head>> \o Walk(nodes, nodes[head].next, fuel - 1)

\* the nodes of a list in list order
ListOf(nodes, head) ==
    LET addrs == Walk(nodes, head, Len(nodes)) IN [i \in 1..Len(addrs) |-> nodes[addrs[i]]]

\* LinkedListJobMatcher::addJob / addResume, as the new heap
Prepend(nodes, head, node) == Append(nodes, [node EXCEPT !.next = head])

\* the loop of LinkedListJobMatcher::loadJobsFromCSV: one addJob per line
RECURSIVE LLLoadLoop(_, _, _, _)
LLLoadLoop(nodes, head, file, n) ==
    IF n > Len(file) THEN <<nodes, head>>
    ELSE LLLoadLoop(Prepend(nodes, head, JobNode(n, file[n])), Len(nodes) + 1, file, n + 1)

\* LinkedListJobMatcher::loadJobsFromCSV
LLLoadJobsFromCSV(file) ==
    /\ matcher = "linked"
    /\ Len(jobs) + Len(file) <= MaxJobs
    /\ Len(jobs) + Len(file) + Len(resumes) <= MaxDocs
    /\ LET loaded == LLLoadLoop(jobs, jobHead, file, 1)
       IN  /\ jobs' = loaded[1]
           /\ jobHead' = loaded[2]
           /\ jobCount' = jobCount + Len(file)
    /\ call' = NoCall
    /\ result' = <<>>
    /\ UNCHANGED <<matcher, resumes, resumeCount, resumeHead, jobIdToIndex, resumeIdToIndex>>

\* LinkedListJobMatcher::loadResumesFromCSV
LLLoadResumesFromCSV(file) ==
    /\ matcher = "linked"
    /\ Len(resumes) + Len(file) <= MaxResumes
    /\ Len(jobs) + Len(file) + Len(resumes) <= MaxDocs
    /\ LET loaded == LLLoadLoop(resumes, resumeHead, file, 1)
       IN  /\ resumes' = loaded[1]
           /\ resumeHead' = loaded[2]
           /\ resumeCount' = resumeCount + Len(file)
    /\ call' = NoCall
    /\ result' = <<>>
    /\ UNCHANGED <<matcher, jobs, jobCount, jobHead, jobIdToIndex, resumeIdToIndex>>

\* LinkedListJobMatcher::addJob
LLAddJob(id, desc) ==
    /\ matcher = "linked"
    /\ Len(jobs) < MaxJobs
    /\ Len(jobs) + Len(resumes) < MaxDocs
    /\ jobs' = Prepend(jobs, jobHead, JobNode(id, desc))
    /\ jobHead' = Len(jobs) + 1
    /\ jobCount' = jobCount + 1
    /\ call' = NoCall
    /\ result' = <<>>
    /\ UNCHANGED <<matcher, resumes, resumeCount, resumeHead, jobIdToIndex, resumeIdToIndex>>

\* LinkedListJobMatcher::addResume
LLAddResume(id, desc) ==
    /\ matcher = "linked"
    /\ Len(resumes) < MaxResumes
    /\ Len(jobs) + Len(resumes) < MaxDocs
    /\ resumes' = Prepend(resumes, resumeHead, JobNode(id, desc))
    /\ resumeHead' = Len(resumes) + 1
    /\ resumeCount' = resumeCount + 1
    /\ call' = NoCall
    /\ result' = <<>>
    /\ UNCHANGED <<matcher, jobs, jobCount, jobHead, jobIdToIndex, resumeIdToIndex>>

\* LinkedListJobMatcher::linearSearchJob / linearSearchResume: the address of
\* the first node of the list with the id, 0 for nullptr
linearSearch(nodes, head, id) ==
    LET addrs == Walk(nodes, head, Len(nodes))
        hits == {i \in 1..Len(addrs) : nodes[addrs[i]].id = id}
    IN  IF hits = {} THEN 0
        ELSE addrs[CHOOSE i \in hits : \A j \in hits : i <= j]

\* the comparison given to std::sort by LinkedListJobMatcher's ranking calls
ScoreGreater(a, b) == a.score > b.score

\* the comparison on every pair of elements of allMatches
ScoreOrder(ms) ==
    [i \in 1..Len(ms) |-> [j \in 1..Len(ms) |-> ScoreGreater(ms[i], ms[j])]]

\* the MatchResult LinkedListJobMatcher builds for one pair
LLMatch(job, resume) ==
    [jobId |-> job.id, resumeId |-> resume.id,
     score |-> calculateMatchScore(job, resume),
     commonSkills |-> LLFindCommonSkills(job, resume)]

\* LinkedListJobMatcher::findMatches
LLFindMatches(resumeId, topK) ==
    /\ matcher = "linked"
    /\ LET targetResume == linearSearch(resumes, resumeHead, resumeId)
           list == ListOf(jobs, jobHead)
       IN  IF targetResume = 0
           THEN /\ call' = Call("findMatches", resumeId, topK, "notfound")
                /\ result' = <<>>
           ELSE /\ call' = Call("findMatches", resumeId, topK, "ok")
                /\ LET allMatches ==
                          [i \in 1..Len(list) |->
                              [LLMatch(list[i], resumes[targetResume])
                                  EXCEPT !.resumeId = resumeId]]
                   IN  \E sorted \in StdSort(allMatches, ScoreOrder(allMatches)) :
                          result' = SubSeq(sorted, 1, TopCount(topK, Len(sorted)))
    /\ UNCHANGED <<matcher, corpus, jobIdToIndex, resumeIdToIndex>>

\* LinkedListJobMatcher::findMatchesForJob
LLFindMatchesForJob(jobId, topK) ==
    /\ matcher = "linked"
    /\ LET targetJob == linearSearch(jobs, jobHead, jobId)
           list == ListOf(resumes, resumeHead)
       IN  IF targetJob = 0
           THEN /\ call' = Call("findMatchesForJob", jobId, topK, "notfound")
                /\ result' = <<>>
           ELSE /\ call' = Call("findMatchesForJob", jobId, topK, "ok")
                /\ LET allMatches ==
                          [i \in 1..Len(list) |->
                              [LLMatch(jobs[targetJob], list[i]) EXCEPT !.jobId = jobId]]
                   IN  \E sorted \in StdSort(allMatches, ScoreOrder(allMatches)) :
                          result' = SubSeq(sorted, 1, TopCount(topK, Len(sorted)))
    /\ UNCHANGED <<matcher, corpus, jobIdToIndex, resumeIdToIndex>>

LLNext ==
    \/ \E file \in WideFiles(MaxJobs) : LLLoadJobsFromCSV(file)
    \/ \E file \in WideFiles(MaxResumes) : LLLoadResumesFromCSV(file)
    \/ \E id \in Ids, desc \in AddTexts : LLAddJob(id, desc)
    \/ \E id \in Ids, desc \in AddTexts : LLAddResume(id, desc)
    \/ \E id \in Ids, topK \in TopKs : LLFindMatches(id, topK)
    \/ \E id \in Ids, topK \in TopKs : LLFindMatchesForJob(id, topK)

(* --------------------------- specification ---------------------------- *)

Init ==
    /\ matcher \in {"array", "advanced", "linked"}
    /\ jobs = <<>>
    /\ resumes = <<>>
    /\ jobCount = 0
    /\ resumeCount = 0
    /\ jobHead = 0
    /\ resumeHead = 0
    /\ jobIdToIndex = <<>>
    /\ resumeIdToIndex = <<>>
    /\ call = NoCall
    /\ result = <<>>

Next == ArrNext \/ AdvNext \/ LLNext

Spec == Init /\ [][Next]_vars

(* ------------------------------ loads alone --------------------------- *)
\* A matcher that is only ever filled by its two load operations.

LoadNext ==
    \/ \E file \in WideFiles(MaxJobs + 1) : ArrLoadJobsFromCSV(file)
    \/ \E file \in WideFiles(MaxResumes + 1) : ArrLoadResumesFromCSV(file)
    \/ \E file \in Files(MaxJobs) : AdvLoadJobsFromCSV(file)
    \/ \E file \in Files(MaxResumes) : AdvLoadResumesFromCSV(file)
    \/ \E file \in WideFiles(MaxJobs) : LLLoadJobsFromCSV(file)
    \/ \E file \in WideFiles(MaxResumes) : LLLoadResumesFromCSV(file)

SpecLoad == Init /\ [][LoadNext]_vars

(* --------------------------- extraction alone ------------------------ *)
\* One record is built from a free text and added to an empty matcher.

\* the pieces free texts are put together from
Pieces == {"Java", "Script", "sql", " ", "g", "o", "C+", "+"}

RECURSIVE Concat(_)
Concat(ps) == IF ps = <<>> THEN "" ELSE Head(ps) \o Concat(Tail(ps))

BuiltTexts == {Concat(ps) : ps \in UNION {[1..n -> Pieces] : n \in 0..MaxPieces}}

TextNext ==
    \E desc \in BuiltTexts :
        /\ jobs = <<>> /\ resumes = <<>>
        /\ (AdvAddJob(1, desc) \/ ArrAddJob(1, desc))

SpecText == Init /\ [][TextNext]_vars

(* ------------------------------ sorting alone ------------------------ *)
\* ArrayJobMatcher::introsortJobs is public and sorts whatever the job array
\* holds; getJob hands out a pointer through which matchScore can be set.
\* SpecSort starts with an array of records that differ in matchScore only,
\* and applies the sort to it.

\* `high - low < 16` of introsortJobs
InsertionSortBelow == 16

Swap(seq, a, b) == [seq EXCEPT ![a + 1] = seq[b + 1], ![b + 1] = seq[a + 1]]

\* the while loop of partitionJobs3Way, with the code's 0-based lt, gt, i:
\* the array it leaves and the value returned
RECURSIVE Partition3WayLoop(_, _, _, _, _)
Partition3WayLoop(seq, pivot, lt, gt, i) ==
    IF i > gt THEN <<seq, lt>>
    ELSE IF seq[i + 1].matchScore < pivot
    THEN Partition3WayLoop(Swap(seq, lt, i), pivot, lt + 1, gt, i + 1)
    ELSE IF seq[i + 1].matchScore > pivot
    THEN Partition3WayLoop(Swap(seq, i, gt), pivot, lt, gt - 1, i)
    ELSE Partition3WayLoop(seq, pivot, lt, gt, i + 1)

\* ArrayJobMatcher::partitionJobs3Way
partitionJobs3Way(seq, low, high) ==
    IF low >= high THEN <<seq, low>>
    ELSE Partition3WayLoop(seq, seq[low + 1].matchScore, low, high, low + 1)

\* the inner while loop of insertionSortJobs and the store of `key`
RECURSIVE InsertKey(_, _, _, _)
InsertKey(seq, key, j, low) ==
    IF j >= low /\ seq[j + 1].matchScore < key.matchScore
    THEN InsertKey([seq EXCEPT ![j + 2] = seq[j + 1]], key, j - 1, low)
    ELSE [seq EXCEPT ![j + 2] = key]

\* the for loop of insertionSortJobs from i on
RECURSIVE InsertionLoop(_, _, _, _)
InsertionLoop(seq, i, low, high) ==
    IF i > high THEN seq
    ELSE InsertionLoop(InsertKey(seq, seq[i + 1], i - 1, low), i + 1, low, high)

\* ArrayJobMatcher::insertionSortJobs
insertionSortJobs(seq, low, high) == InsertionLoop(seq, low + 1, low, high)

RemoveAt(seq, i) == [k \in 1..(Len(seq) - 1) |-> IF k < i THEN seq[k] ELSE seq[k + 1]]

\* std::make_heap + std::sort_heap with Job::operator<: the records in
\* non-increasing matchScore order, records of equal score in any order
RECURSIVE HeapSorted(_)
HeapSorted(seq) ==
    IF seq = <<>> THEN {<<>>}
    ELSE LET top == {i \in 1..Len(seq) :
                        \A j \in 1..Len(seq) : seq[i].matchScore >= seq[j].matchScore}
             picks == {<<seq[i], RemoveAt(seq, i)>> : i \in top}
         IN  UNION {{<<p[1]>> \o rest : rest \in HeapSorted(p[2])} : p \in picks}

\* ArrayJobMatcher::introsortJobs: the arrays it can leave
RECURSIVE introsortJobs(_, _, _, _)
introsortJobs(seq, low, high, depthLimit) ==
    IF ~(low < high) THEN {seq}
    ELSE IF high - low < InsertionSortBelow THEN {insertionSortJobs(seq, low, high)}
    ELSE IF depthLimit = 0
    THEN {SubSeq(seq, 1, low) \o mid \o SubSeq(seq, high + 2, Len(seq)) :
             mid \in HeapSorted(SubSeq(seq, low + 1, high + 1))}
    ELSE LET part == partitionJobs3Way(seq, low, high)
             pivotIndex == part[2]
         IN  UNION {introsortJobs(left, pivotIndex + 1, high, depthLimit - 1) :
                       left \in introsortJobs(part[1], low, pivotIndex - 1, depthLimit - 1)}

\* the matchScore values of the sort inputs
SortScores == {0, Scale \div 2, Scale}

\* the arrays given to the sort: all scores 0 but at two positions
SortInputs ==
    UNION {{[i \in 1..n |->
                [id |-> 1,
                 matchScore |-> IF i = p THEN a ELSE IF i = q THEN b ELSE 0,
                 description |-> "", skills |-> <<>>, skillWeights |-> <<>>]] :
            p \in 1..n, q \in 1..n, a \in SortScores, b \in SortScores} :
           n \in 1..MaxSortLen}

SortInit ==
    /\ matcher = "array"
    /\ jobs \in SortInputs
    /\ resumes = <<>>
    /\ jobCount = Len(jobs)
    /\ resumeCount = 0
    /\ jobHead = 0
    /\ resumeHead = 0
    /\ jobIdToIndex = <<>>
    /\ resumeIdToIndex = <<>>
    /\ call = NoCall
    /\ result = <<>>

\* a call of ArrayJobMatcher::introsortJobs(0, jobCount - 1, depthLimit)
ArrIntrosortJobs(depthLimit) ==
    /\ matcher = "array"
    /\ jobs' \in introsortJobs(jobs, 0, jobCount - 1, depthLimit)
    /\ call' = Call("introsortJobs", 0, depthLimit, "ok")
    /\ result' = <<>>
    /\ UNCHANGED <<matcher, resumes, jobCount, resumeCount, jobHead, resumeHead,
                   jobIdToIndex, resumeIdToIndex>>

SortNext == \E depthLimit \in 0..MaxDepth : ArrIntrosortJobs(depthLimit)

SpecSort == SortInit /\ [][SortNext]_vars

(* ---------------------------- the lists alone ------------------------- *)
\* LinkedListJobMatcher with up to MaxListLen job nodes that addJob copied
\* from nodes of any matchScore, its merge sort and its destructor.

\* the loop of LinkedListJobMatcher::getMiddle, from slow = head and
\* fast = head->next
RECURSIVE getMiddle(_, _, _)
getMiddle(nodes, slow, fast) ==
    IF fast # 0 /\ nodes[fast].next # 0
    THEN getMiddle(nodes, nodes[slow].next, nodes[nodes[fast].next].next)
    ELSE slow

\* a merge that keeps the left list and drops the right one
mergeJobsMutant(nodes, left, right) ==
    IF left = 0 THEN <<nodes, right>> ELSE <<nodes, left>>

\* LinkedListJobMatcher::mergeJobs: the heap after the merge and the head of
\* the merged list
RECURSIVE mergeJobs(_, _, _)
mergeJobs(nodes, left, right) ==
    IF left = 0 THEN <<nodes, right>>
    ELSE IF right = 0 THEN <<nodes, left>>
    ELSE IF nodes[left].matchScore >= nodes[right].matchScore
    THEN LET rest == mergeJobs(nodes, nodes[left].next, right)
         IN  <<[rest[1] EXCEPT ![left].next = rest[2]], left>>
    ELSE LET rest == mergeJobs(nodes, left, nodes[right].next)
         IN  <<[rest[1] EXCEPT ![right].next = rest[2]], right>>

\* LinkedListJobMatcher::mergeSortJobs: the heap after the sort and the head
\* of the sorted list
RECURSIVE mergeSortJobs(_, _)
mergeSortJobs(nodes, head) ==
    IF head = 0 \/ nodes[head].next = 0 THEN <<nodes, head>>
    ELSE LET middle == getMiddle(nodes, head, nodes[head].next)
             nextToMiddle == nodes[middle].next
             left == mergeSortJobs([nodes EXCEPT ![middle].next = 0], head)
             right == mergeSortJobs(left[1], nextToMiddle)
         IN  mergeJobs(right[1], left[2], right[2])

\* LinkedListJobMatcher::sortJobsByScore
LLSortJobsByScore ==
    /\ matcher = "linked"
    /\ jobs' = mergeSortJobs(jobs, jobHead)[1]
    /\ jobHead' = mergeSortJobs(jobs, jobHead)[2]
    /\ call' = Call("sortJobsByScore", 0, 0, "ok")
    /\ result' = <<>>
    /\ UNCHANGED <<matcher, resumes, jobCount, resumeCount, resumeHead,
                   jobIdToIndex, resumeIdToIndex>>

\* LinkedListJobMatcher::~LinkedListJobMatcher: clearJobList and
\* clearResumeList delete every node; the actions that follow are those of a
\* matcher constructed anew
LLClearLists ==
    /\ matcher = "linked"
    /\ jobs' = <<>>
    /\ jobHead' = 0
    /\ jobCount' = 0
    /\ resumes' = <<>>
    /\ resumeHead' = 0
    /\ resumeCount' = 0
    /\ call' = Call("clearJobList", 0, 0, "ok")
    /\ result' = <<>>
    /\ UNCHANGED <<matcher, jobIdToIndex, resumeIdToIndex>>

\* LinkedListJobMatcher::addJob of a node whose matchScore the caller set
LLAddNode(score) ==
    /\ matcher = "linked"
    /\ Len(jobs) < MaxListLen
    /\ jobs' = Prepend(jobs, jobHead,
                       [JobNode(Len(jobs) + 1, Texts[3]) EXCEPT !.matchScore = score])
    /\ jobHead' = Len(jobs) + 1
    /\ jobCount' = jobCount + 1
    /\ call' = Call("addJob", Len(jobs) + 1, 0, "ok")
    /\ result' = <<>>
    /\ UNCHANGED <<matcher, resumes, resumeCount, resumeHead, jobIdToIndex, resumeIdToIndex>>

ListInit == Init /\ matcher = "linked"

ListNext ==
    \/ \E score \in SortScores : LLAddNode(score)
    \/ \E id \in Ids, desc \in AddTexts : LLAddResume(id, desc)
    \/ LLSortJobsByScore
    \/ LLClearLists

SpecList == ListInit /\ [][ListNext]_vars

(* --------------------------- searches alone --------------------------- *)
\* ArrayJobMatcher holding up to MaxSearchLen jobs that addJob put there in
\* any order of ids, the searches by id applied to it.  1073741825 is an id
\* in the upper half of the int range.

SearchInit ==
    /\ matcher = "array"
    /\ \E n \in 0..MaxSearchLen :
          jobs \in [1..n -> {ArrJob(id, Texts[3]) : id \in {1, 2, 3, 1073741825}}]
    /\ resumes = <<>>
    /\ jobCount = Len(jobs)
    /\ resumeCount = 0
    /\ jobHead = 0
    /\ resumeHead = 0
    /\ jobIdToIndex = <<>>
    /\ resumeIdToIndex = <<>>
    /\ call = NoCall
    /\ result = <<>>

SearchNext ==
    \E id \in {0, 1, 2, 3, 4, 1073741824, 1073741825} :
       \/ ArrInterpolationSearchJob(id)
       \/ ArrBinarySearchJob(id)
       \/ ArrLinearSearchJob(id)

SpecSearch == SearchInit /\ [][SearchNext]_vars

(* ----------------------------- DynamicArray --------------------------- *)
\* A DynamicArray<T> of CustomContainers.hpp on its own: `result` is the
\* array, a record of data (the capacity_ slots of the allocation, slot 0 of
\* the code at index 1), size_ and capacity_.  The values of T are
\* 1..MaxValue, 0 is the content of a slot of a new allocation.  `call` is
\* the last operation with its arguments, "throw" when it threw.  There is
\* no matcher: matcher = "none".

\* a growth that multiplies the capacity by GROWTH_FACTOR and no more
resizeMutant(a) ==
    [a EXCEPT !.data = [i \in 1..((a.capacity_ * 3) \div 2) |->
                           IF i <= a.size_ THEN a.data[i] ELSE 0],
              !.capacity_ = (a.capacity_ * 3) \div 2]

\* DynamicArray::resize(): the private growth by GROWTH_FACTOR = 1.5
resize(a) ==
    LET grown == (a.capacity_ * 3) \div 2
        newCapacity == IF grown <= a.capacity_ THEN a.capacity_ + 1 ELSE grown
    IN  [a EXCEPT !.data = [i \in 1..newCapacity |->
                               IF i <= a.size_ THEN a.data[i] ELSE 0],
                  !.capacity_ = newCapacity]

\* DynamicArray::reserve(newCapacity)
reserve(a, newCapacity) ==
    IF newCapacity > a.capacity_
    THEN [a EXCEPT !.data = [i \in 1..newCapacity |->
                                IF i <= a.size_ THEN a.data[i] ELSE 0],
                   !.capacity_ = newCapacity]
    ELSE a

\* the array after an operation that returned
Returned(op, arg, value, a) ==
    /\ a.capacity_ <= MaxCapacity
    /\ result' = a
    /\ call' = Call(op, arg, value, "ok")
    /\ UNCHANGED <<matcher, corpus, jobIdToIndex, resumeIdToIndex>>

\* DynamicArray::push_back(value)
DynPushBack(value) ==
    /\ matcher = "none"
    /\ LET a == IF result.size_ >= result.capacity_ THEN resize(result) ELSE result
       IN  Returned("push_back", 0, value,
                    [a EXCEPT !.data[a.size_ + 1] = value, !.size_ = a.size_ + 1])

\* DynamicArray::pop_back()
DynPopBack ==
    /\ matcher = "none"
    /\ Returned("pop_back", 0, 0,
                IF result.size_ > 0 THEN [result EXCEPT !.size_ = @ - 1] ELSE result)

\* DynamicArray::insert(pos, value), pos counted from 0
DynInsert(pos, value) ==
    /\ matcher = "none"
    /\ IF pos > result.size_
       THEN /\ call' = Call("insert", pos, value, "throw")
            /\ UNCHANGED <<matcher, corpus, jobIdToIndex, resumeIdToIndex, result>>
       ELSE LET a == IF result.size_ >= result.capacity_ THEN resize(result)
                     ELSE result
            IN  Returned("insert", pos, value,
                   [a EXCEPT !.data = [i \in 1..a.capacity_ |->
                                          IF i = pos + 1 THEN value
                                          ELSE IF i > pos + 1 /\ i <= a.size_ + 1
                                          THEN a.data[i - 1] ELSE a.data[i]],
                             !.size_ = a.size_ + 1])

\* DynamicArray::erase(pos), pos counted from 0
DynErase(pos) ==
    /\ matcher = "none"
    /\ IF pos >= result.size_
       THEN /\ call' = Call("erase", pos, 0, "throw")
            /\ UNCHANGED <<matcher, corpus, jobIdToIndex, resumeIdToIndex, result>>
       ELSE Returned("erase", pos, 0,
               [result EXCEPT !.data = [i \in 1..result.capacity_ |->
                                           IF i >= pos + 1 /\ i < result.size_
                                           THEN result.data[i + 1] ELSE result.data[i]],
                              !.size_ = result.size_ - 1])

\* DynamicArray::resize(newSize)
DynResize(newSize) ==
    /\ matcher = "none"
    /\ Returned("resize", newSize, 0,
                [reserve(result, newSize) EXCEPT !.size_ = newSize])

\* DynamicArray::reserve(newCapacity)
DynReserve(newCapacity) ==
    /\ matcher = "none"
    /\ Returned("reserve", newCapacity, 0, reserve(result, newCapacity))

\* DynamicArray::clear()
DynClear ==
    /\ matcher = "none"
    /\ Returned("clear", 0, 0, [result EXCEPT !.size_ = 0])

\* DynamicArray::shrink_to_fit()
DynShrinkToFit ==
    /\ matcher = "none"
    /\ Returned("shrink_to_fit", 0, 0,
                IF result.size_ < result.capacity_
                THEN [result EXCEPT !.data = SubSeq(result.data, 1, result.size_),
                                    !.capacity_ = result.size_]
                ELSE result)

\* DynamicArray::DynamicArray(): INITIAL_CAPACITY = 4 slots, none in use
DynInit ==
    /\ matcher = "none"
    /\ jobs = <<>>
    /\ resumes = <<>>
    /\ jobCount = 0
    /\ resumeCount = 0
    /\ jobHead = 0
    /\ resumeHead = 0
    /\ jobIdToIndex = <<>>
    /\ resumeIdToIndex = <<>>
    /\ call = NoCall
    /\ result = [data |-> <<0, 0, 0, 0>>, size_ |-> 0, capacity_ |-> 4]

DynNext ==
    \/ \E value \in 1..MaxValue : DynPushBack(value)
    \/ DynPopBack
    \/ \E pos \in 0..MaxCapacity, value \in 1..MaxValue : DynInsert(pos, value)
    \/ \E pos \in 0..MaxCapacity : DynErase(pos)
    \/ \E newSize \in 0..MaxCapacity : DynResize(newSize)
    \/ \E newCapacity \in 0..MaxCapacity : DynReserve(newCapacity)
    \/ DynClear
    \/ DynShrinkToFit

SpecDyn == DynInit /\ [][DynNext]_vars

(* ------------------------- command line interface -------------------- *)
\* JobPortalCLI over an ArrayJobMatcher (useArrayImpl).  `call` is the page
\* on display: op the view, id the page, k the totalPages handed to
\* showPaginationControls, status the input that led to it; `result` the
\* rows shown.  NoCall is a menu.

\* the lines typed at the pagination prompt
Commands == {"n", "p", "q", "x", "", "#", "#x", "#0", "#1", "#2", "#3"}

\* std::stoi of the text after '#'; -1 stands for the exception it throws
Stoi(str) ==
    CASE str = "0" -> 0 [] str = "1" -> 1 [] str = "2" -> 2 [] str = "3" -> 3
      [] OTHER -> -1

\* totalPages of browseJobs / browseResumes
TotalPages(total) == (total + PageSize - 1) \div PageSize

\* the rows that the for loop of browseJobs / browseResumes prints
PageRows(docs, page) ==
    LET startIdx == (page - 1) * PageSize
        endIdx == Min(startIdx + PageSize, Len(docs))
    IN  [n \in 1..(IF endIdx > startIdx THEN endIdx - startIdx ELSE 0) |->
            docs[startIdx + n]]

\* JobPortalCLI::browseJobs(page), reached by the input `command`
BrowseJobs(page, command) ==
    /\ call' = Call("browseJobs", page, TotalPages(jobCount), command)
    /\ result' = PageRows(jobs, page)
    /\ UNCHANGED <<matcher, corpus, jobIdToIndex, resumeIdToIndex>>

\* JobPortalCLI::browseResumes(page), reached by the input `command`
BrowseResumes(page, command) ==
    /\ call' = Call("browseResumes", page, TotalPages(resumeCount), command)
    /\ result' = PageRows(resumes, page)
    /\ UNCHANGED <<matcher, corpus, jobIdToIndex, resumeIdToIndex>>

\* choice 1 of runSeekerMenu
CliBrowseJobs == call = NoCall /\ BrowseJobs(1, "1")

\* choice 1 of runEmployerMenu
CliBrowseResumes == call = NoCall /\ BrowseResumes(1, "1")

\* JobPortalCLI::showPaginationControls(currentPage, totalPages) reading
\* `command`: an invalid command prompts again
CliPaginationCommand(command) ==
    /\ call.op \in {"browseJobs", "browseResumes"}
    /\ LET currentPage == call.id
           totalPages == call.k
           page == Stoi(SubSeq(command, 2, Len(command)))
       IN  IF command = "n" /\ currentPage < totalPages
           THEN BrowseResumes(currentPage + 1, command)
           ELSE IF command = "p" /\ currentPage > 1
           THEN BrowseResumes(currentPage - 1, command)
           ELSE IF Len(command) > 0 /\ SubSeq(command, 1, 1) = "#"
           THEN IF page >= 1 /\ page <= totalPages
                THEN BrowseResumes(page, command)
                ELSE UNCHANGED vars
           ELSE IF command = "q"
           THEN /\ call' = NoCall
                /\ result' = <<>>
                /\ UNCHANGED <<matcher, corpus, jobIdToIndex, resumeIdToIndex>>
           ELSE UNCHANGED vars

\* JobPortalCLI::JobPortalCLI: the two files are loaded into the matcher
CliInit ==
    /\ matcher = "array"
    /\ jobs \in {ArrLoadLoop(<<>>, file, 1, MaxJobs) : file \in Files(MaxJobs)}
    /\ resumes \in {ArrLoadLoop(<<>>, file, 1, MaxResumes) : file \in Files(MaxResumes)}
    /\ jobCount = Len(jobs)
    /\ resumeCount = Len(resumes)
    /\ jobHead = 0
    /\ resumeHead = 0
    /\ jobIdToIndex = <<>>
    /\ resumeIdToIndex = <<>>
    /\ call = NoCall
    /\ result = <<>>

CliNext ==
    \/ CliBrowseJobs
    \/ CliBrowseResumes
    \/ \E command \in Commands : CliPaginationCommand(command)

SpecCli == CliInit /\ [][CliNext]_vars

(* ------------------------------ scorers alone ------------------------- *)
\* The three scorers are public and take any two records.  SpecScore starts
\* with one job and one resume whose skill lists and weights are arbitrary,
\* and applies the scorer of the class to them.

\* the skill lists of the scorer inputs
SkillLists(S) == UNION {[1..n -> S] : n \in 0..MaxSkillLen}

\* the non-negative weights of the scorer inputs
Weights == {0, 7, WUnit}

\* the records given to AdvancedArrayJobMatcher::calculateAdvancedMatchScore
AdvInputs ==
    UNION {{[id |-> 1, description |-> "", skillIds |-> ids, skillWeights |-> w,
             matchScore |-> 0] : w \in [1..Len(ids) -> Weights]} :
           ids \in SkillLists(1..MaxSkillLen)}

\* the records given to ArrayJobMatcher::calculateAdvancedMatchScore
ArrInputs ==
    {[id |-> 1, matchScore |-> 0, description |-> "", skills |-> sk,
      skillWeights |-> [i \in 1..Len(sk) |-> WUnit]] :
     sk \in SkillLists({Skills[i] : i \in 1..MaxSkillLen})}

\* the records given to LinkedListJobMatcher::calculateMatchScore
LLInputs ==
    {[id |-> 1, description |-> "", skills |-> sk, matchScore |-> 0, next |-> 0] :
     sk \in SkillLists({commonSkillsList[i] : i \in 1..MaxSkillLen})}

ScoreInit ==
    /\ matcher \in {"array", "advanced", "linked"}
    /\ jobs \in {<<j>> : j \in CASE matcher = "array" -> ArrInputs
                                 [] matcher = "advanced" -> AdvInputs
                                 [] OTHER -> LLInputs}
    /\ resumes \in {<<r>> : r \in CASE matcher = "array" -> ArrInputs
                                    [] matcher = "advanced" -> AdvInputs
                                    [] OTHER -> LLInputs}
    /\ jobCount = 1
    /\ resumeCount = 1
    /\ jobHead = IF matcher = "linked" THEN 1 ELSE 0
    /\ resumeHead = IF matcher = "linked" THEN 1 ELSE 0
    /\ jobIdToIndex = <<>>
    /\ resumeIdToIndex = <<>>
    /\ call = NoCall
    /\ result = <<>>

\* a call of the scorer `op` on the two records: result is the score returned
Scored(op, score) ==
    /\ call = NoCall
    /\ call' = Call(op, 0, 0, "ok")
    /\ result' = <<score>>
    /\ UNCHANGED <<matcher, corpus, jobIdToIndex, resumeIdToIndex>>

\* a call of ArrayJobMatcher::calculateAdvancedMatchScore
ArrScore ==
    /\ matcher = "array"
    /\ Scored("calculateAdvancedMatchScore",
              ArrCalculateAdvancedMatchScore(jobs[1], resumes[1]))

\* a call of AdvancedArrayJobMatcher::calculateAdvancedMatchScore
AdvScore ==
    /\ matcher = "advanced"
    /\ Scored("calculateAdvancedMatchScore",
              calculateAdvancedMatchScore(jobs[1], resumes[1]))

\* a call of LinkedListJobMatcher::calculateMatchScore
LLScore ==
    /\ matcher = "linked"
    /\ Scored("calculateMatchScore", calculateMatchScore(jobs[1], resumes[1]))

ScoreNext == ArrScore \/ AdvScore \/ LLScore

SpecScore == ScoreInit /\ [][ScoreNext]_vars

(* ----------------------------- properties ------------------------------ *)

RankOps == {"findMatches", "findMatchesForJob"}

ScoreOps == {"calculateAdvancedMatchScore", "calculateMatchScore"}

\* the last call was a ranking call
Ranked == call.op \in RankOps

\* a record of the anchor's collection has the id
AnchorLoaded(op, id) ==
    IF op = "findMatches"
    THEN \E i \in 1..Len(resumes) : resumes[i].id = id
    ELSE \E i \in 1..Len(jobs) : jobs[i].id = id

\* the number of documents in the collection the last call ranks
CandidateCount == IF call.op = "findMatches" THEN jobCount ELSE resumeCount

\* the score and the candidate id of one result of the last call
ScoreOf(m) == IF matcher = "array" THEN m.overallScore ELSE m.score

CandidateId(m) == IF call.op = "findMatches" THEN m.jobId ELSE m.resumeId

\* the skills of a record, as a set
SkillSet(doc) == IF matcher = "advanced" THEN Range(doc.skillIds) ELSE Range(doc.skills)

\* the scores of allMatches in a full descending sort
RECURSIVE DescendingScores(_)
DescendingScores(scores) ==
    IF scores = <<>> THEN <<>>
    ELSE LET top == CHOOSE i \in 1..Len(scores) : \A j \in 1..Len(scores) : scores[i] >= scores[j]
         IN  <<scores[top]>>
             \o DescendingScores([i \in 1..(Len(scores) - 1) |->
                                    IF i < top THEN scores[i] ELSE scores[i + 1]])

\* what AdvancedArrayJobMatcher::findMatches ranks for the last call
LastAllMatches == AdvAllMatches(searchResume(call.id), call.id)

\* C1: for a loaded anchor id and k >= 1, the results of findMatches and
\* findMatchesForJob of the three matchers are in non-increasing score order.
C1_NonIncreasingScores ==
    (Ranked /\ AnchorLoaded(call.op, call.id) /\ call.k >= 1)
        => \A i \in 1..(Len(result) - 1) : ScoreOf(result[i]) >= ScoreOf(result[i + 1])

\* a ranking call has returned two results with different scores
C1_Witness ==
    /\ Ranked /\ AnchorLoaded(call.op, call.id) /\ call.k >= 1
    /\ Len(result) >= 2
    /\ ScoreOf(result[1]) > ScoreOf(result[2])

\* C2: for a loaded anchor id and k >= 1, the number of results is
\* min(k, number of documents in the opposite collection).
C2_ResultCount ==
    (Ranked /\ AnchorLoaded(call.op, call.id) /\ call.k >= 1)
        => Len(result) = Min(call.k, CandidateCount)

\* C3: two results with equal score appear in ascending candidate-id order.
C3_TieBreakById ==
    (Ranked /\ call.k >= 1)
        => \A i, j \in 1..Len(result) :
              (i < j /\ ScoreOf(result[i]) = ScoreOf(result[j]))
                  => CandidateId(result[i]) <= CandidateId(result[j])

\* C4: with 0 <= k < number of candidates, the results of
\* AdvancedArrayJobMatcher::findMatches carry the scores of the first k
\* entries of a full descending sort of all candidate scores.
C4_PartialSortTopK ==
    (/\ matcher = "advanced" /\ call.op = "findMatches"
     /\ searchResume(call.id) # 0
     /\ 0 <= call.k /\ call.k < Len(jobs))
        => [i \in 1..Len(result) |-> result[i].score]
            = SubSeq(DescendingScores([i \in 1..Len(jobs) |-> LastAllMatches[i].score]),
                     1, call.k)

\* findMatches has returned the best one of two jobs, stored second
C4_Witness ==
    /\ matcher = "advanced" /\ call.op = "findMatches"
    /\ searchResume(call.id) # 0
    /\ call.k = 1 /\ Len(jobs) = 2
    /\ LastAllMatches[1].score < LastAllMatches[2].score
    /\ Len(result) = 1

\* C5: for any skill lists and non-negative weights, the score each of the
\* three scorers returns is between 0 and 1.
C5_ScoreInUnitInterval ==
    call.op \in ScoreOps => (0 <= result[1] /\ result[1] <= Scale)

\* a scorer has returned 1 for records with skills, the sum before the cap
\* being larger
C5_Witness ==
    /\ call.op \in ScoreOps
    /\ SkillSet(jobs[1]) # {} /\ SkillSet(jobs[1]) = SkillSet(resumes[1])
    /\ result[1] = Scale

\* C6: for records whose skill sets have no element in common, the score
\* returned by the scorer is exactly 0.
C6_DisjointScoreZero ==
    (call.op \in ScoreOps /\ SkillSet(jobs[1]) \cap SkillSet(resumes[1]) = {})
        => result[1] = 0

\* a scorer has returned for two records with skills, none in common
C6_Witness ==
    /\ call.op \in ScoreOps
    /\ SkillSet(jobs[1]) # {} /\ SkillSet(resumes[1]) # {}
    /\ SkillSet(jobs[1]) \cap SkillSet(resumes[1]) = {}
    /\ result[1] = 0

\* the result m of the last findMatches is the one built for a pair with a
\* record without skills
ZeroSkillPair(m) ==
    \/ Len(resumes[searchResume(call.id)].skillIds) = 0
    \/ \E i \in 1..Len(jobs) :
          Len(jobs[i].skillIds) = 0 /\ m = LastAllMatches[i]

\* C7: in AdvancedArrayJobMatcher::findMatches, the MatchResult of a pair
\* with a record without skills has score, cosineSimilarity, skillMatchRatio
\* and coverageRatio 0, none of them the result of 0/0.
C7_ZeroSkillsAllZero ==
    (/\ matcher = "advanced" /\ call.op = "findMatches"
     /\ searchResume(call.id) # 0 /\ call.k >= 1)
        => \A n \in 1..Len(result) :
              ZeroSkillPair(result[n])
                  => /\ result[n].score = 0
                     /\ result[n].cosineSimilarity = 0
                     /\ result[n].skillMatchRatio = 0
                     /\ result[n].coverageRatio = 0

\* C8: findMatches / findMatchesForJob called with an id that no record of
\* the anchor's collection has returns an empty sequence and leaves the two
\* collections as they are.
C8_NotFoundEmpty ==
    [][(call'.op \in RankOps /\ ~AnchorLoaded(call'.op, call'.id))
          => (result' = <<>> /\ corpus' = corpus)]_vars

\* a ranking call with k >= 1 has returned for an id that no record of the
\* anchor's collection has, both collections having records
C8_Witness ==
    /\ Ranked /\ ~AnchorLoaded(call.op, call.id)
    /\ call.k >= 1
    /\ Len(jobs) >= 1 /\ Len(resumes) >= 1
    /\ result = <<>>

\* C9: findMatches and findMatchesForJob called with topK <= 0 return no
\* results.
C9_NonPositiveKRejected ==
    (Ranked /\ call.k <= 0) => result = <<>>

\* C10: in every reachable state of AdvancedArrayJobMatcher, every id that
\* jobIdToIndex registers is the id of the job at its index, and likewise for
\* resumeIdToIndex.
C10_IndexConsistent ==
    matcher = "advanced"
        => /\ \A id \in DOMAIN jobIdToIndex :
                searchJob(id) # 0 /\ jobs[searchJob(id)].id = id
           /\ \A id \in DOMAIN resumeIdToIndex :
                searchResume(id) # 0 /\ resumes[searchResume(id)].id = id

\* C11: after any sequence of load operations on one matcher, no two jobs
\* share an id and no two resumes share an id.
C11_UniqueIds ==
    /\ \A i, j \in 1..Len(jobs) : jobs[i].id = jobs[j].id => i = j
    /\ \A i, j \in 1..Len(resumes) : resumes[i].id = resumes[j].id => i = j

\* C12: the skillIds sequence of a document built from a text holds no value
\* twice.
C12_SkillIdsDistinct ==
    matcher = "advanced"
        => \A n \in 1..(Len(jobs) + Len(resumes)) :
              LET doc == IF n <= Len(jobs) THEN jobs[n] ELSE resumes[n - Len(jobs)]
              IN  \A i, j \in 1..Len(doc.skillIds) :
                     doc.skillIds[i] = doc.skillIds[j] => i = j

\* C13: in each MatchResult of AdvancedArrayJobMatcher::findMatches for a
\* job with at least one skill, skillMatchRatio is 1.0 if and only if every
\* skill id of the job is also a skill id of the resume.
C13_FullRatioIffContained ==
    (/\ matcher = "advanced" /\ call.op = "findMatches"
     /\ searchResume(call.id) # 0 /\ call.k >= 1)
        => \A n \in 1..Len(result) : \A i \in 1..Len(jobs) :
              (Len(jobs[i].skillIds) >= 1 /\ result[n] = LastAllMatches[i])
                  => (result[n].skillMatchRatio = Scale
                      <=> Range(jobs[i].skillIds)
                            \subseteq Range(resumes[searchResume(call.id)].skillIds))

\* the catalog phrases the trie scan finds in a text
TrieNames(text) == {Skills[id + 1] : id \in Range(extractSkills(text))}

\* the catalog phrases the per-phrase substring search finds in a text
FoundNames(text) == {Skills[k] : k \in Range(FindEach(toLowerCase(text), Skills, 1))}

\* C14: for every text, the set of skills found by the trie scan equals the
\* set of catalog phrases that occur in the lowercased text, which is the set
\* found by the per-phrase substring search; a text shorter than every
\* phrase yields the empty set.
C14_TrieEqualsSubstringSearch ==
    \A i \in 1..Len(jobs) :
        /\ matcher = "advanced"
              => /\ {Skills[id + 1] : id \in Range(jobs[i].skillIds)}
                      = FoundNames(jobs[i].description)
                 /\ FoundNames(jobs[i].description)
                      = {Skills[k] : k \in {n \in 1..Len(Skills) :
                            Contains(toLowerCase(jobs[i].description), Skills[n])}}
        /\ matcher = "array"
              => Range(jobs[i].skills) = TrieNames(jobs[i].description)
        /\ (\A k \in 1..Len(Skills) : Len(jobs[i].description) < Len(Skills[k]))
              => SkillSet(jobs[i]) = {}

\* the trie scan has found two phrases in a text with upper-case letters,
\* one of them twice
C14_Witness ==
    /\ matcher = "advanced" /\ Len(jobs) = 1
    /\ jobs[1].description # toLowerCase(jobs[1].description)
    /\ Cardinality(Range(jobs[1].skillIds)) = 2
    /\ Len(jobs[1].skillIds) = 3

\* C15: after every operation of AdvancedArrayJobMatcher that changes the
\* corpus, each document's skillWeights are the IDF weights computed over
\* the current jobs and resumes.
C15_WeightsCurrent ==
    matcher = "advanced"
        => /\ \A i \in 1..Len(jobs) :
                jobs[i].skillWeights = IdfWeights(jobs, resumes, jobs[i])
           /\ \A i \in 1..Len(resumes) :
                resumes[i].skillWeights = IdfWeights(jobs, resumes, resumes[i])

\* the records of both collections
Documents == Range(jobs) \cup Range(resumes)

\* C16: after calculateTFIDF, the document frequency d of every skill id
\* that occurs satisfies 1 <= d <= jobs.size() + resumes.size(), its weight
\* is >= 0, and the weight is 0 exactly when the skill occurs in every
\* document, also when a document lists a skill id more than once.
C16_DocumentFrequencyBounds ==
    matcher = "advanced"
        => \A doc \in Documents : \A j \in 1..Len(doc.skillIds) :
              LET d == skillDocumentCount(jobs, resumes, doc.skillIds[j])
              IN  /\ 1 <= d /\ d <= Len(jobs) + Len(resumes)
                  /\ doc.skillWeights[j] >= 0
                  /\ doc.skillWeights[j] = 0
                        <=> \A other \in Documents :
                               doc.skillIds[j] \in Range(other.skillIds)

\* calculateTFIDF has run over two documents, one listing a skill id twice:
\* the skill both list has weight 0, the skill only one lists a weight > 0
C16_Witness ==
    /\ matcher = "advanced"
    /\ Len(jobs) + Len(resumes) = 2
    /\ \E doc \in Documents :
          \E i, j \in 1..Len(doc.skillIds) :
             i # j /\ doc.skillIds[i] = doc.skillIds[j] /\ doc.skillWeights[i] = 0
    /\ \E doc \in Documents :
          \E j \in 1..Len(doc.skillIds) : doc.skillWeights[j] > 0

\* C17: calculateTFIDF called a second time with no load or add in between
\* leaves every document's skillWeights as the first call set them.
C17_TfIdfIdempotent ==
    matcher = "advanced"
        => /\ calculateTFIDF(jobs, resumes, jobs) = jobs
           /\ calculateTFIDF(jobs, resumes, resumes) = resumes

\* calculateTFIDF has stored a weight other than 0 and other than the
\* default 1.0
C17_Witness ==
    /\ matcher = "advanced"
    /\ \E doc \in Documents :
          \E j \in 1..Len(doc.skillIds) :
             doc.skillWeights[j] > 0 /\ doc.skillWeights[j] # WUnit

\* C18: findMatches and findMatchesForJob leave the corpus as it is: the
\* order of the job and resume records, their ids, their skill lists and
\* their skill weights are the same after the call as before it, for found
\* and not-found anchors alike.
C18_RankingLeavesCorpus ==
    [][call'.op \in RankOps
          => /\ jobs' = jobs /\ resumes' = resumes
             /\ jobCount' = jobCount /\ resumeCount' = resumeCount
             /\ jobHead' = jobHead /\ resumeHead' = resumeHead]_vars

\* a ranking call for a loaded anchor has returned two results, the two
\* candidates ranked in the opposite of their stored order
C18_Witness ==
    /\ Ranked /\ AnchorLoaded(call.op, call.id)
    /\ Len(result) = 2
    /\ ScoreOf(result[1]) > ScoreOf(result[2])
    /\ IF call.op = "findMatches"
       THEN Len(jobs) = 2 /\ jobs[1] # jobs[2]
       ELSE Len(resumes) = 2 /\ resumes[1] # resumes[2]

SearchOps == {"interpolationSearchJob", "interpolationSearchResume"}

\* the weights of a record are all 0: its norm in calculateCosineSimilarity
\* is 0
ZeroNorm(doc) == \A j \in 1..Len(doc.skillWeights) : doc.skillWeights[j] = 0

\* C19: no reachable call divides by zero: interpolationSearchJob and
\* interpolationSearchResume never evaluate the interpolation formula with
\* jobs[right].id == jobs[left].id, also when the collection holds duplicate
\* ids, and calculateCosineSimilarity returns 0 when either norm is 0.
C19_NoDivisionByZero ==
    /\ call.op \in SearchOps => call.status # "divzero"
    /\ (/\ matcher = "advanced" /\ call.op = "findMatches"
        /\ searchResume(call.id) # 0 /\ call.k >= 1)
          => \A n \in 1..Len(result) : \A i \in 1..Len(jobs) :
                (/\ result[n] = LastAllMatches[i]
                 /\ ZeroNorm(jobs[i]) \/ ZeroNorm(resumes[searchResume(call.id)]))
                    => result[n].cosineSimilarity = 0

\* C20: for the same job texts, resume texts, job id and k, findMatchesForJob
\* of ArrayJobMatcher and of LinkedListJobMatcher assign the same score to
\* every (job, resume) pair.
C20_BackendsAgree ==
    (call.op = "findMatchesForJob" /\ call.status = "ok")
        => /\ matcher = "array"
              => \A n \in 1..Len(result) : \A i \in 1..Len(resumes) :
                    LET job == jobs[FirstWithId(jobs, call.id)]
                    IN  result[n] = [ArrMatch(job, resumes[i]) EXCEPT !.jobId = call.id]
                          => result[n].overallScore
                               = calculateMatchScore(
                                    JobNode(job.id, job.description),
                                    JobNode(resumes[i].id, resumes[i].description))
           /\ matcher = "linked"
              => \A n \in 1..Len(result) : \A i \in 1..Len(resumes) :
                    LET job == jobs[linearSearch(jobs, jobHead, call.id)]
                    IN  result[n] = [LLMatch(job, resumes[i]) EXCEPT !.jobId = call.id]
                          => result[n].score
                               = ArrCalculateAdvancedMatchScore(
                                    ArrJob(job.id, job.description),
                                    ArrJob(resumes[i].id, resumes[i].description))

\* C21: for every job/resume pair with at least one common skill, the score
\* the scorer returns is greater than 0 and at most 1, whatever the skill
\* weights are, also when every weight is 0.
C21_CommonSkillPositiveScore ==
    (call.op \in ScoreOps /\ SkillSet(jobs[1]) \cap SkillSet(resumes[1]) # {})
        => (0 < result[1] /\ result[1] <= Scale)

\* the scorer of AdvancedArrayJobMatcher has returned a score between 0 and
\* 1 for two records with a common skill, all of whose weights are 0
C21_Witness ==
    /\ matcher = "advanced" /\ call.op \in ScoreOps
    /\ SkillSet(jobs[1]) \cap SkillSet(resumes[1]) # {}
    /\ ZeroNorm(jobs[1]) /\ ZeroNorm(resumes[1])
    /\ 0 < result[1] /\ result[1] < Scale

\* the records are in non-increasing matchScore order
DescendingMatchScore(docs) ==
    \A i \in 1..(Len(docs) - 1) : docs[i].matchScore >= docs[i + 1].matchScore

\* b holds the records of a, each as often as a does
IsPermutation(a, b) ==
    /\ Len(a) = Len(b)
    /\ \A v \in Range(a) \cup Range(b) :
          Cardinality({i \in 1..Len(a) : a[i] = v})
            = Cardinality({i \in 1..Len(b) : b[i] = v})

\* C22: ArrayJobMatcher::introsortJobs(0, n-1, depthLimit) leaves jobs[0..n-1]
\* in non-increasing matchScore order and as a permutation of its prior
\* contents, for every n and every assignment of matchScore values, also for
\* ranges of more than 16 elements, where the 3-way partition is taken.
C22_IntrosortSorts ==
    [][call'.op = "introsortJobs"
          => (DescendingMatchScore(jobs') /\ IsPermutation(jobs, jobs'))]_vars

\* C23: while jobs are browsed, the command 'n' (when currentPage <
\* totalPages) displays the next page of jobs, 'p' the previous page of jobs
\* and '#N' page N of jobs; handling a pagination command never switches the
\* view from jobs to resumes.
C23_PaginationStaysOnJobs ==
    [][call.op = "browseJobs"
          => /\ call'.op # "browseResumes"
             /\ (call' # call /\ call'.status = "n")
                   => (/\ call'.op = "browseJobs" /\ call'.id = call.id + 1
                       /\ result' = PageRows(jobs, call.id + 1))
             /\ (call' # call /\ call'.status = "p")
                   => (/\ call'.op = "browseJobs" /\ call'.id = call.id - 1
                       /\ result' = PageRows(jobs, call.id - 1))
             /\ (call' # call /\ call'.status \notin {"n", "p", "ok"})
                   => (/\ call'.op = "browseJobs"
                       /\ call'.id = Stoi(SubSeq(call'.status, 2, Len(call'.status)))
                       /\ result' = PageRows(jobs, call'.id))]_vars

\* the ids of the loaded jobs are pairwise distinct
DistinctJobIds == \A i, j \in 1..Len(jobs) : jobs[i].id = jobs[j].id => i = j

\* a job with this id is loaded
JobLoaded(id) == \E i \in 1..Len(jobs) : jobs[i].id = id

\* C24: on a collection whose job ids are pairwise distinct,
\* interpolationSearchJob(id) terminates for every id (each iteration shrinks
\* the interval, so it probes at most jobCount times, and every probe lies
\* within [left, right]) and returns a job whose id equals id if one is
\* loaded and nullptr otherwise.
C24_InterpolationSearchFinds ==
    (call.op = "interpolationSearchJob" /\ DistinctJobIds)
        => /\ call.status \in {"found", "notfound"}
           /\ call.k <= jobCount
           /\ JobLoaded(call.id) => (Len(result) = 1 /\ result[1].id = call.id)
           /\ ~JobLoaded(call.id) => result = <<>>

\* sorted by ascending id
AscendingIds(docs) == \A i \in 1..(Len(docs) - 1) : docs[i].id <= docs[i + 1].id

\* C25: binarySearchJob(id) returns a job whose id equals id if and only if
\* such a job is loaded and leaves the jobs array a permutation of its prior
\* contents sorted by ascending id; linearSearchJob(id) gives the same
\* found / not found answer and leaves the array as it was.
C25_BinarySearchSortsLinearDoesNot ==
    [][/\ call'.op = "binarySearchJob"
          => /\ IsPermutation(jobs, jobs') /\ AscendingIds(jobs')
             /\ JobLoaded(call'.id) => (Len(result') = 1 /\ result'[1].id = call'.id)
             /\ ~JobLoaded(call'.id) => result' = <<>>
       /\ call'.op = "linearSearchJob"
          => /\ jobs' = jobs
             /\ JobLoaded(call'.id) => (Len(result') = 1 /\ result'[1].id = call'.id)
             /\ ~JobLoaded(call'.id) => result' = <<>>]_vars

\* a binary search has found the last of four jobs
C25_Witness ==
    /\ call.op = "binarySearchJob" /\ call.status = "found"
    /\ Len(jobs) = 4 /\ result = <<jobs[4]>> /\ jobs[4].id # jobs[1].id

C27_CountsWithinCapacity ==
    /\ [](matcher = "array"
            => /\ 0 <= jobCount /\ jobCount <= MaxJobs /\ jobCount = Len(jobs)
               /\ 0 <= resumeCount /\ resumeCount <= MaxResumes
               /\ resumeCount = Len(resumes))
    /\ [][(matcher = "array" /\ call' = NoCall)
            => /\ jobCount = MaxJobs => (jobs' = jobs /\ jobCount' = jobCount)
               /\ resumeCount = MaxResumes
                     => (resumes' = resumes /\ resumeCount' = resumeCount)]_vars

\* a load has filled the job array
C27_Witness ==
    /\ matcher = "array" /\ call = NoCall
    /\ jobCount = MaxJobs /\ jobs[MaxJobs].id = MaxJobs

\* the number of distinct skills that the first job and the first resume share
CommonCount == Cardinality(SkillSet(jobs[1]) \cap SkillSet(resumes[1]))

\* C28: in ArrayJobMatcher::calculateAdvancedMatchScore and
\* LinkedListJobMatcher::calculateMatchScore the exact match count equals the
\* number of common skills, so for every pair with non-empty skill lists the
\* score returned is min(1, 0.9 * skillMatchRatio + 0.3 * coverageRatio), a
\* function of the two ratios alone.
C28_BonusFollowsRatios ==
    (/\ matcher \in {"array", "linked"} /\ call.op \in ScoreOps
     /\ jobs[1].skills # <<>> /\ resumes[1].skills # <<>>)
        => /\ ExactMatches(jobs[1], resumes[1], CommonFrom(jobs[1].skills,
                                                           resumes[1].skills, 1, <<>>))
                = CommonCount
           /\ result[1]
                = Min((Ratio(CommonCount, Len(jobs[1].skills)) * 9) \div 10
                        + (Ratio(CommonCount, Len(resumes[1].skills)) * 3) \div 10,
                      Scale)

\* a scored pair of two-skill lists that share one skill, at different indices
C28_Witness ==
    /\ matcher = "array" /\ call.op \in ScoreOps
    /\ Len(jobs[1].skills) = 2 /\ Len(resumes[1].skills) = 2
    /\ CommonCount = 1 /\ jobs[1].skills[1] = resumes[1].skills[2]
    /\ result[1] = (Scale * 6) \div 10

\* the addresses reachable from head, one more than there are nodes if the
\* list has a cycle
Reachable(nodes, head) == Walk(nodes, head, Len(nodes) + 1)

\* the list from head has no cycle and holds count nodes
WellFormedList(nodes, head, count) ==
    LET addrs == Reachable(nodes, head)
    IN  /\ Len(addrs) <= Len(nodes)
        /\ \A i, j \in 1..Len(addrs) : addrs[i] = addrs[j] => i = j
        /\ count = Len(addrs)

\* C29: in every reachable state of LinkedListJobMatcher the job list is
\* acyclic and jobCount is the number of nodes reachable from jobHead
\* (likewise resumeCount and resumeHead); addJob puts the new node at the head
\* and increments the count, sortJobsByScore keeps exactly the same nodes and
\* leaves them in non-increasing matchScore order, and clearJobList leaves an
\* empty list with count 0.
C29_ListWellFormed ==
    /\ [](matcher = "linked"
            => /\ WellFormedList(jobs, jobHead, jobCount)
               /\ WellFormedList(resumes, resumeHead, resumeCount))
    /\ [][/\ call'.op = "addJob"
             => /\ jobCount' = jobCount + 1
                /\ jobs'[jobHead'].id = call'.id
                /\ jobs'[jobHead'].next = jobHead
                /\ SubSeq(ListOf(jobs', jobHead'), 2, jobCount') = ListOf(jobs, jobHead)
          /\ call'.op = "sortJobsByScore"
             => /\ Range(Reachable(jobs', jobHead')) = Range(Reachable(jobs, jobHead))
                /\ \A a \in 1..Len(jobs) : [jobs'[a] EXCEPT !.next = 0]
                                                = [jobs[a] EXCEPT !.next = 0]
                /\ DescendingMatchScore(ListOf(jobs', jobHead'))
          /\ call'.op = "clearJobList"
             => (jobHead' = 0 /\ jobCount' = 0 /\ ListOf(jobs', jobHead') = <<>>)]_vars

\* a sorted list of four nodes whose head is not the node added last
C29_Witness ==
    /\ matcher = "linked" /\ call.op = "sortJobsByScore"
    /\ jobCount = 4 /\ jobHead # 4
    /\ jobs[jobHead].matchScore > jobs[4].matchScore

\* C30: for every sequence of push_back, pop_back, insert, erase, resize,
\* reserve, clear and shrink_to_fit on a DynamicArray, size <= capacity holds
\* after each operation, and push_back increases size by one, stores the
\* value at the last index and leaves the elements at all earlier indices
\* unchanged, also when the call grows the array (from capacity 0 included).
C30_SizeWithinCapacity ==
    /\ [](/\ result.size_ <= result.capacity_
          /\ Len(result.data) = result.capacity_)
    /\ [][call'.op = "push_back"
            => /\ result'.size_ = result.size_ + 1
               /\ result'.data[result'.size_] = call'.k
               /\ \A i \in 1..result.size_ : result'.data[i] = result.data[i]]_vars

\* a push_back that grew an array of capacity 0
C30_Witness ==
    /\ call.op = "push_back"
    /\ result.size_ = 1 /\ result.capacity_ = 1 /\ result.data = <<call.k>>

====
